---- MODULE Spec2Model ----
(***************************************************************************)
(* Model of the yowidin/cbor library: write sinks (dynamic_buffer,         *)
(* static_buffer), the read source (read_buffer), their rollback helpers,  *)
(* the head codec and the typed encode / decode overload set.              *)
(*                                                                         *)
(* 64-bit quantities are kept as big-endian sequences of eight bytes, so   *)
(* that the whole unsigned / signed 64-bit range is covered exactly.       *)
(***************************************************************************)
EXTENDS Integers, Sequences, FiniteSets, TLC

VARIABLES
   build,     \* what the build fixes: the standard library's vector growth and dynamic_buffer_initial_size
   sink,      \* the write sink
   source,    \* the read source
   helpers,   \* the rollback helper objects alive, in order of construction
   scopes,    \* ghost: per get_rollback_helper call, the size / cursor it saw, whether commit() was
              \* called on its state, and the rollbacks done for it
   input,     \* the argument drawn for the operation under study (specifications of one operation)
   last,      \* ghost: the operation performed last, its argument, its result and the state it started from
   sent,      \* ghost: the items encoded so far
   received   \* ghost: the items decoded so far

vars == <<build, sink, source, helpers, scopes, input, last, sent, received>>

(***************************************************************************)
(* Bounds of the model                                                     *)
(***************************************************************************)
\* Largest finite max_capacity of a dynamic sink drawn by Init
MaxCap == 3
\* Largest extent of the span under a static sink drawn by Init
MaxExtent == 3
\* Largest number of simultaneously alive rollback helper objects
MaxHelpers == 2
\* Largest number of get_rollback_helper calls in one behaviour
MaxScopes == 2
\* Largest number of get_rollback_helper calls in one behaviour of Spec
MaxSinkScopes == 1
\* Largest number of bytes passed to one raw write / read call
MaxWrite == 2
\* Largest dynamic_buffer_initial_size drawn by Init
MaxInitialSize == 1
\* Writes are no longer started once a sink holds this many bytes
MaxSize == 4
\* Encodes are no longer started once a sink holds this many bytes
MaxFill == 2
\* Largest number of items encoded one after another into one sink
MaxItems == 2

(***************************************************************************)
(* Bytes and fixed-width integers                                          *)
(***************************************************************************)
Byte == 0..255

Zeros(n) == [i \in 1..n |-> 0]

\* static_cast to std::uint64_t of an unsigned big-endian byte pattern
ZExt(b) == Zeros(8 - Len(b)) \o b

\* static_cast to an unsigned type of w bytes (keeps the low w bytes)
LowBytes(a, w) == SubSeq(a, Len(a) - w + 1, Len(a))

\* a < b for two unsigned patterns of the same length
LtU(a, b) == \E i \in 1..Len(a) : a[i] < b[i] /\ \A j \in 1..(i - 1) : a[j] = b[j]

LeU(a, b) == a = b \/ LtU(a, b)

\* a < b for two signed (two's complement) patterns of the same length
SKey(a) == [a EXCEPT ![1] = (a[1] + 128) % 256]

LtS(a, b) == LtU(SKey(a), SKey(b))

\* The sign bit of a two's complement pattern
IsNeg(a) == a[1] >= 128

\* a - b modulo 2^(8 * Len(a)), byte by byte with borrow, least significant byte first
RECURSIVE SubBorrow(_, _, _, _)
SubBorrow(a, b, i, borrow) ==
   IF i = 0 THEN <<>>
   ELSE LET d == a[i] - b[i] - borrow
        IN SubBorrow(a, b, i - 1, IF d < 0 THEN 1 ELSE 0) \o <<d % 256>>

SubW(a, b) == SubBorrow(a, b, Len(a), 0)

\* The 64-bit pattern of a small natural number (n < 2^31)
U64(n) ==
   <<0, 0, 0, 0, (n \div 16777216) % 256, (n \div 65536) % 256, (n \div 256) % 256, n % 256>>

\* The number held by a pattern known to be small (all but the low three bytes zero)
SmallNat(a) == a[Len(a) - 2] * 65536 + a[Len(a) - 1] * 256 + a[Len(a)]

IsSmall(a) == \A i \in 1..(Len(a) - 3) : a[i] = 0

\* A max_int_v that gives every type the limit of the unsigned type of its width
max_int_v_of_width(signed, w) == Zeros(8 - w) \o [i \in 1..w |-> 255]

\* std::numeric_limits<T>::max() / min() as 64-bit patterns, T given by signedness and width in bytes
max_int_v(signed, w) ==
   IF signed THEN Zeros(8 - w) \o <<127>> \o [i \in 1..(w - 1) |-> 255]
   ELSE Zeros(8 - w) \o [i \in 1..w |-> 255]

min_int_v(signed, w) ==
   IF signed THEN [i \in 1..(8 - w) |-> 255] \o <<128>> \o Zeros(w - 1)
   ELSE Zeros(8)

MinusOne == [i \in 1..8 |-> 255]

(***************************************************************************)
(* Error codes (cbor::error)                                               *)
(***************************************************************************)
success == "success"
buffer_overflow == "buffer_overflow"
buffer_underflow == "buffer_underflow"
value_not_representable == "value_not_representable"
invalid_usage == "invalid_usage"
unexpected_type == "unexpected_type"
ill_formed == "ill_formed"
decoding_error == "decoding_error"

(***************************************************************************)
(* Write sinks                                                             *)
(*   kind          "dynamic" or "static"                                   *)
(*   mem           dynamic: the vector's elements; static: the whole span  *)
(*   data_size     static: data_size_ (dynamic: unused, 0)                 *)
(*   capacity      dynamic: vec_->capacity()                               *)
(*   max_capacity  dynamic: max_capacity_                                  *)
(***************************************************************************)
unlimited_capacity == -1

size(s) == IF s.kind = "dynamic" THEN Len(s.mem) ELSE s.data_size

\* The committed bytes: positions [0, size())
committed(s) == SubSeq(s.mem, 1, size(s))

Max(a, b) == IF a >= b THEN a ELSE b
Min(a, b) == IF a <= b THEN a ELSE b

\* Capacity of a std::vector after an insertion / resize that needs new_size > capacity elements.
\* The growth factor is the standard library's choice.
vector_grow(growth, cap, old_size, new_size) ==
   CASE growth = "libstdcxx" -> old_size + Max(old_size, new_size - old_size)
     [] growth = "libcxx" -> Max(2 * cap, new_size)
     [] OTHER -> Max(cap + cap \div 2, new_size)

Growths == {"libstdcxx", "libcxx", "msvc"}

dynamic_buffer_new(max_capacity) ==
   [kind |-> "dynamic", mem |-> <<>>, data_size |-> 0,
    capacity |-> IF build.initial_size # 0 /\ max_capacity # unlimited_capacity
                 THEN Min(build.initial_size, max_capacity) ELSE 0,
    max_capacity |-> max_capacity]

static_buffer_new(extent) ==
   [kind |-> "static", mem |-> Zeros(extent), data_size |-> 0,
    capacity |-> 0, max_capacity |-> unlimited_capacity]

dynamic_buffer_ensure_capacity(s, num_bytes) ==
   LET remainder == s.capacity - Len(s.mem)
       target_capacity == s.capacity + num_bytes
   IN IF remainder >= num_bytes THEN success
      ELSE IF s.max_capacity # unlimited_capacity /\ target_capacity > s.max_capacity
           THEN buffer_overflow
           ELSE success

dynamic_buffer_write(s, v) ==
   LET res == dynamic_buffer_ensure_capacity(s, Len(v))
       new_size == Len(s.mem) + Len(v)
   IN IF res # success THEN [sink |-> s, ec |-> res]
      ELSE [sink |-> [s EXCEPT !.mem = s.mem \o v,
                               !.capacity = IF new_size > s.capacity
                                            THEN vector_grow(build.growth, s.capacity, Len(s.mem), new_size)
                                            ELSE s.capacity],
            ec |-> success]

\* An ensure_capacity that keeps one byte of the span free
static_buffer_ensure_capacity_strict(s, num_bytes) ==
   LET remainder == Len(s.mem) - s.data_size
   IN IF remainder > num_bytes THEN success ELSE buffer_overflow

static_buffer_ensure_capacity(s, num_bytes) ==
   LET remainder == Len(s.mem) - s.data_size
   IN IF remainder >= num_bytes THEN success ELSE buffer_overflow

\* A write that copies what fits before it reports the overflow
static_buffer_write_partial(s, v) ==
   LET fits == Min(Len(v), Len(s.mem) - s.data_size)
   IN IF fits = Len(v)
      THEN [sink |-> [s EXCEPT !.mem = SubSeq(s.mem, 1, s.data_size) \o v \o
                                        SubSeq(s.mem, s.data_size + Len(v) + 1, Len(s.mem)),
                               !.data_size = s.data_size + Len(v)],
            ec |-> success]
      ELSE [sink |-> [s EXCEPT !.mem = SubSeq(s.mem, 1, s.data_size) \o SubSeq(v, 1, fits),
                               !.data_size = s.data_size + fits],
            ec |-> buffer_overflow]

static_buffer_write(s, v) ==
   LET res == static_buffer_ensure_capacity(s, Len(v))
   IN IF res # success THEN [sink |-> s, ec |-> res]
      ELSE [sink |-> [s EXCEPT !.mem = [i \in 1..Len(s.mem) |->
                                           IF i > s.data_size /\ i <= s.data_size + Len(v)
                                           THEN v[i - s.data_size] ELSE s.mem[i]],
                               !.data_size = s.data_size + Len(v)],
            ec |-> success]

\* buffer::write(const_span_t), dispatched on the dynamic type of the sink
write(s, v) == IF s.kind = "dynamic" THEN dynamic_buffer_write(s, v) ELSE static_buffer_write(s, v)

begin_nested_write(s) == size(s)

dynamic_buffer_rollback_nested_write(s, token) ==
   IF token <= Len(s.mem) THEN [s EXCEPT !.mem = SubSeq(s.mem, 1, token)]
   ELSE [s EXCEPT !.mem = s.mem \o Zeros(token - Len(s.mem)),
                  !.capacity = IF token > s.capacity
                               THEN vector_grow(build.growth, s.capacity, Len(s.mem), token)
                               ELSE s.capacity]

static_buffer_rollback_nested_write(s, token) == [s EXCEPT !.data_size = token]

\* A rollback that takes the token for the number of bytes to drop
rollback_nested_write_dropping(s, token) ==
   IF s.kind = "dynamic" THEN dynamic_buffer_rollback_nested_write(s, Max(Len(s.mem) - token, 0))
   ELSE static_buffer_rollback_nested_write(s, Max(s.data_size - token, 0))

rollback_nested_write(s, token) ==
   IF s.kind = "dynamic" THEN dynamic_buffer_rollback_nested_write(s, token)
   ELSE static_buffer_rollback_nested_write(s, token)

(***************************************************************************)
(* Read source (read_buffer)                                               *)
(*   bound          span_.data() is not null                               *)
(*   span           the bytes of the bound memory                          *)
(*   read_position  read_position_                                         *)
(*   beyond         the byte found in the memory that follows the span: an *)
(*                  access past the end of the span is undefined and reads *)
(*                  whatever the build placed there                        *)
(***************************************************************************)
read_buffer_new(span, beyond) ==
   [bound |-> TRUE, span |-> span, read_position |-> 0, beyond |-> beyond]

read_buffer_unbound ==
   [bound |-> FALSE, span |-> <<>>, read_position |-> 0, beyond |-> 0]

\* span_[i] for a zero-based index i
span_at(src, i) == IF i < Len(src.span) THEN src.span[i + 1] ELSE src.beyond

\* span_.size() - read_position_ is computed in std::size_t: a cursor past the end wraps around
\* to a huge value, which is neither <= 0 nor smaller than any request
read_buffer_read_byte(src) ==
   IF ~src.bound THEN [source |-> src, ec |-> invalid_usage, v |-> 0]
   ELSE IF Len(src.span) - src.read_position = 0
        THEN [source |-> src, ec |-> buffer_underflow, v |-> 0]
        ELSE [source |-> [src EXCEPT !.read_position = src.read_position + 1],
              ec |-> success, v |-> span_at(src, src.read_position)]

\* A span read that delivers the bytes left when fewer than n are left
read_buffer_read_span_partial(src, n, dest_null) ==
   LET k == Min(n, Max(Len(src.span) - src.read_position, 0))
   IN IF ~src.bound THEN [source |-> src, ec |-> invalid_usage, v |-> <<>>]
      ELSE IF dest_null THEN [source |-> src, ec |-> invalid_usage, v |-> <<>>]
      ELSE [source |-> [src EXCEPT !.read_position = src.read_position + k],
            ec |-> IF k < n THEN buffer_underflow ELSE success,
            v |-> [i \in 1..k |-> span_at(src, src.read_position + i - 1)]]

\* read(buffer::span_t v) for a destination of n bytes; dest_null is !v.data()
read_buffer_read_span(src, n, dest_null) ==
   IF ~src.bound THEN [source |-> src, ec |-> invalid_usage, v |-> <<>>]
   ELSE IF dest_null THEN [source |-> src, ec |-> invalid_usage, v |-> <<>>]
   ELSE IF src.read_position <= Len(src.span) /\ Len(src.span) - src.read_position < n
        THEN [source |-> src, ec |-> buffer_underflow, v |-> <<>>]
        ELSE [source |-> [src EXCEPT !.read_position = src.read_position + n],
              ec |-> success,
              v |-> [i \in 1..n |-> span_at(src, src.read_position + i - 1)]]

read_buffer_reset(src, position) == [src EXCEPT !.read_position = position]

(***************************************************************************)
(* Rollback helpers (buffer::rollback_helper, read_buffer::rollback_helper)*)
(*   cls       "write" or "read": the class of the helper                  *)
(*   buf       buf_ is not null                                            *)
(*   token     token_ / start_position_                                    *)
(*   rollback  rollback_                                                   *)
(*   id        ghost: the get_rollback_helper call whose state this is     *)
(***************************************************************************)
rollback_helper_new(cls, token, id) ==
   [cls |-> cls, buf |-> TRUE, token |-> token, rollback |-> TRUE, id |-> id]

\* A move that copies the state and leaves the moved-from helper as it was
rollback_helper_copied_from(o) == o

\* What a move leaves in the moved-from helper: o.buf_ = nullptr; o.rollback_ = false
rollback_helper_moved_from(o) == [o EXCEPT !.buf = FALSE, !.rollback = FALSE]

rollback_helper_commit(h) == [h EXCEPT !.rollback = FALSE]

\* The destructor's condition
rollback_helper_rolls_back(h) == h.buf /\ h.rollback

(***************************************************************************)
(* Head encoding (major_type, argument_size, simple_type, encode_argument) *)
(***************************************************************************)
unsigned_int == 0
signed_int == 32
byte_string == 64
text_string == 96
array == 128
dictionary == 160
tag == 192
simple == 224

no_bytes == 0
one_byte == 24
two_bytes == 25
four_bytes == 26
eight_bytes == 27
reserved_0 == 28
reserved_1 == 29
reserved_2 == 30

false_type == 20
true_type == 21
null_type == 22
hp_float == 25
sp_float == 26
dp_float == 27

ZERO_EXTRA_BYTES_VALUE_LIMIT == <<23>>
ONE_EXTRA_BYTE_VALUE_LIMIT == <<255>>
TWO_EXTRA_BYTES_VALUE_LIMIT == <<255, 255>>
FOUR_EXTRA_BYTES_VALUE_LIMIT == <<255, 255, 255, 255>>

\* v <= limit for an unsigned v of any width
LeLimit(v, limit) == LeU(ZExt(v), ZExt(limit))

\* detail::encode_argument: the four overloads are told apart by the width Len(v) of the argument.
\* Each overload either hands the argument to a narrower overload or ends in one buf.write;
\* argument_head gives the bytes of that write.
RECURSIVE argument_head(_, _, _)
argument_head(type, v, compress) ==
   CASE Len(v) = 1 ->
           IF compress /\ LeLimit(v, ZERO_EXTRA_BYTES_VALUE_LIMIT)
           THEN <<type + no_bytes + v[1]>>
           ELSE <<type + one_byte, v[1]>>
     [] Len(v) = 2 ->
           IF compress /\ LeLimit(v, ONE_EXTRA_BYTE_VALUE_LIMIT)
           THEN argument_head(type, LowBytes(v, 1), compress)
           ELSE <<type + two_bytes>> \o v
     [] Len(v) = 4 ->
           IF compress /\ LeLimit(v, ONE_EXTRA_BYTE_VALUE_LIMIT)
           THEN argument_head(type, LowBytes(v, 1), compress)
           ELSE IF compress /\ LeLimit(v, TWO_EXTRA_BYTES_VALUE_LIMIT)
           THEN argument_head(type, LowBytes(v, 2), compress)
           ELSE <<type + four_bytes>> \o v
     [] OTHER ->
           IF compress /\ LeLimit(v, ONE_EXTRA_BYTE_VALUE_LIMIT)
           THEN argument_head(type, LowBytes(v, 1), compress)
           ELSE IF compress /\ LeLimit(v, TWO_EXTRA_BYTES_VALUE_LIMIT)
           THEN argument_head(type, LowBytes(v, 2), compress)
           ELSE IF compress /\ LeLimit(v, FOUR_EXTRA_BYTES_VALUE_LIMIT)
           THEN argument_head(type, LowBytes(v, 4), compress)
           ELSE <<type + eight_bytes>> \o v

detail_encode_argument(s, type, v, compress) == write(s, argument_head(type, v, compress))

\* An encode_argument that goes by the width of the holding type instead of by the value
encode_argument_by_width(s, type, argument) == detail_encode_argument(s, type, argument, FALSE)

\* template <UnsignedInt T> encode_argument(buf, type, T argument); argument is T's value as a
\* pattern of sizeof(T) bytes
encode_argument(s, type, argument) ==
   IF LeU(ZExt(argument), max_int_v(FALSE, 1))
   THEN detail_encode_argument(s, type, LowBytes(ZExt(argument), 1), TRUE)
   ELSE IF LeU(ZExt(argument), max_int_v(FALSE, 2))
   THEN detail_encode_argument(s, type, LowBytes(ZExt(argument), 2), TRUE)
   ELSE IF LeU(ZExt(argument), max_int_v(FALSE, 4))
   THEN detail_encode_argument(s, type, LowBytes(ZExt(argument), 4), TRUE)
   ELSE IF LeU(ZExt(argument), max_int_v(FALSE, 8))
   THEN detail_encode_argument(s, type, LowBytes(ZExt(argument), 8), TRUE)
   ELSE [sink |-> s, ec |-> value_not_representable]

(***************************************************************************)
(* Values                                                                  *)
(*   An integer of type T is [k, signed, w, bits]: w = sizeof(T) and bits  *)
(*   its value converted to 64 bits (sign- or zero-extended).              *)
(***************************************************************************)
IntV(signed, w, bits) == [k |-> "int", signed |-> signed, w |-> w, bits |-> bits]
UIntV(w, n) == IntV(FALSE, w, U64(n))
\* a small non-negative / negative value of a signed type
SIntV(w, n) == IntV(TRUE, w, IF n >= 0 THEN U64(n) ELSE SubW(Zeros(8), U64(0 - n)))
EnumV(u) == [k |-> "enum", v |-> u]
BytesV(b) == [k |-> "bytes", v |-> b]
TextV(b) == [k |-> "text", v |-> b]
BoolV(b) == [k |-> "bool", v |-> b]
NullV == [k |-> "null"]
NoneV(t) == [k |-> "optional", has_value |-> FALSE, t |-> t]
SomeV(v) == [k |-> "optional", has_value |-> TRUE, v |-> v]
FloatV(w, bits) == [k |-> "float", w |-> w, bits |-> bits]
ArrayV(fixed, vs) == [k |-> "array", fixed |-> fixed, v |-> vs]
MapV(pairs) == [k |-> "map", v |-> pairs]
\* a record type is known by its type_id (an integer constant, or NoId) and its members
NoId == [k |-> "none"]
RecordV(id, members) == [k |-> "record", id |-> id, v |-> members]
BoxedV(r) == [k |-> "boxed", v |-> r]
\* a std::variant: the type identifiers of its alternatives in declaration order, and the active one
UnionV(ids, index, r) == [k |-> "union", ids |-> ids, index |-> index, v |-> r]

(***************************************************************************)
(* IEEE 754 binary16 / binary32 / binary64 patterns, as sequences of bits  *)
(***************************************************************************)
Pow2(n) == 2 ^ n

ToBits(b) == [i \in 1..(8 * Len(b)) |-> (b[((i - 1) \div 8) + 1] \div Pow2(7 - ((i - 1) % 8))) % 2]

FromBits(x) ==
   [j \in 1..(Len(x) \div 8) |->
      128 * x[8 * j - 7] + 64 * x[8 * j - 6] + 32 * x[8 * j - 5] + 16 * x[8 * j - 4]
      + 8 * x[8 * j - 3] + 4 * x[8 * j - 2] + 2 * x[8 * j - 1] + x[8 * j]]

RECURSIVE BitsToNat(_)
BitsToNat(x) == IF x = <<>> THEN 0 ELSE 2 * BitsToNat(SubSeq(x, 1, Len(x) - 1)) + x[Len(x)]

NatToBits(n, k) == [i \in 1..k |-> (n \div Pow2(k - i)) % 2]

FmtHalf == [e |-> 5, m |-> 10]
FmtSingle == [e |-> 8, m |-> 23]
FmtDouble == [e |-> 11, m |-> 52]

FmtOf(w) == IF w = 2 THEN FmtHalf ELSE IF w = 4 THEN FmtSingle ELSE FmtDouble

Bias(fmt) == Pow2(fmt.e - 1) - 1
FSign(x) == x[1]
FExp(x, fmt) == BitsToNat(SubSeq(x, 2, 1 + fmt.e))
FMant(x, fmt) == SubSeq(x, 2 + fmt.e, 1 + fmt.e + fmt.m)
AllZero(x) == \A i \in 1..Len(x) : x[i] = 0
ZeroBits(n) == [i \in 1..n |-> 0]

\* std::fpclassify of a pattern of w bytes
fpclassify(bits, w) ==
   LET x == ToBits(bits)
       fmt == FmtOf(w)
   IN IF FExp(x, fmt) = Pow2(fmt.e) - 1
      THEN IF AllZero(FMant(x, fmt)) THEN "FP_INFINITE" ELSE "FP_NAN"
      ELSE "FP_OTHER"

\* Conversion of a finite value to the narrower format `to`.  A value the narrower format holds
\* is converted exactly; any other value is truncated (the callers only compare the result with
\* the original, and every rounding mode gives a result that differs from it).
Narrow(bits, from, to) ==
   LET x == ToBits(bits)
       e == FExp(x, from)
       m == FMant(x, from)
       E == e - Bias(from)
       emin == 1 - Bias(to)
       shift == emin - E
       out(ee, mm) == FromBits(<<FSign(x)>> \o NatToBits(ee, to.e) \o mm)
   IN IF e = 0 THEN out(0, ZeroBits(to.m))
      ELSE IF E > Bias(to) THEN out(Pow2(to.e) - 1, ZeroBits(to.m))
      ELSE IF E >= emin THEN out(E + Bias(to), SubSeq(m, 1, to.m))
      ELSE IF shift <= to.m
           THEN out(0, ZeroBits(shift - 1) \o <<1>> \o SubSeq(m, 1, to.m - shift))
           ELSE out(0, ZeroBits(to.m))

\* Index of the first 1 in a sequence of bits (0 when there is none)
RECURSIVE FirstOne(_, _)
FirstOne(x, i) == IF i > Len(x) THEN 0 ELSE IF x[i] = 1 THEN i ELSE FirstOne(x, i + 1)

\* Exact conversion to the wider format `to`
Widen(bits, from, to) ==
   LET x == ToBits(bits)
       e == FExp(x, from)
       m == FMant(x, from)
       pad == ZeroBits(to.m - from.m)
       j == FirstOne(m, 1)
       out(ee, mm) == FromBits(<<FSign(x)>> \o NatToBits(ee, to.e) \o mm)
   IN IF e = Pow2(from.e) - 1 THEN out(Pow2(to.e) - 1, m \o pad)
      ELSE IF e # 0 THEN out(e - Bias(from) + Bias(to), m \o pad)
      ELSE IF j = 0 THEN out(0, ZeroBits(to.m))
      ELSE out(1 - Bias(from) - j + Bias(to), SubSeq(m, j + 1, Len(m)) \o ZeroBits(j) \o pad)

IsZeroF(bits) == AllZero(Tail(ToBits(bits)))

\* operator== of two non-NaN values of the same format
FloatEq(a, b) == a = b \/ (IsZeroF(a) /\ IsZeroF(b))

\* fhf::pack (binary32 to binary16) and fhf::unpack (binary16 to binary32)
fhf_pack(bits) == Narrow(bits, FmtSingle, FmtHalf)
fhf_unpack(bits) == Widen(bits, FmtHalf, FmtSingle)

\* encode(buffer &, float)
encode_float(s, bits) ==
   LET value_type == fpclassify(bits, 4)
       with_half(binary_half) ==
          IF FloatEq(fhf_unpack(binary_half), bits)
          THEN detail_encode_argument(s, simple, binary_half, FALSE)
          ELSE detail_encode_argument(s, simple, bits, FALSE)
   IN CASE value_type = "FP_NAN" -> write(s, <<simple + hp_float, 126, 0>>)
        [] value_type = "FP_INFINITE" ->
              IF bits[1] < 128 THEN write(s, <<simple + hp_float, 124, 0>>)
              ELSE write(s, <<simple + hp_float, 252, 0>>)
        [] OTHER -> with_half(fhf_pack(bits))

\* A double encode that never tries the half-precision format
encode_double_without_half(s, bits) ==
   LET value_type == fpclassify(bits, 8)
       with_single(single) ==
          IF FloatEq(Widen(single, FmtSingle, FmtDouble), bits)
          THEN detail_encode_argument(s, simple, single, FALSE)
          ELSE detail_encode_argument(s, simple, bits, FALSE)
   IN CASE value_type = "FP_NAN" -> write(s, <<simple + hp_float, 126, 0>>)
        [] value_type = "FP_INFINITE" ->
              IF bits[1] < 128 THEN write(s, <<simple + hp_float, 124, 0>>)
              ELSE write(s, <<simple + hp_float, 252, 0>>)
        [] OTHER -> with_single(Narrow(bits, FmtDouble, FmtSingle))

\* encode(buffer &, double)
encode_double(s, bits) ==
   LET value_type == fpclassify(bits, 8)
       with_half(single, binary_half) ==
          IF FloatEq(fhf_unpack(binary_half), single)
          THEN detail_encode_argument(s, simple, binary_half, FALSE)
          ELSE detail_encode_argument(s, simple, single, FALSE)
       with_single(single) ==
          IF FloatEq(Widen(single, FmtSingle, FmtDouble), bits)
          THEN with_half(single, fhf_pack(single))
          ELSE detail_encode_argument(s, simple, bits, FALSE)
   IN CASE value_type = "FP_NAN" -> write(s, <<simple + hp_float, 126, 0>>)
        [] value_type = "FP_INFINITE" ->
              IF bits[1] < 128 THEN write(s, <<simple + hp_float, 124, 0>>)
              ELSE write(s, <<simple + hp_float, 252, 0>>)
        [] OTHER -> with_single(Narrow(bits, FmtDouble, FmtSingle))

(***************************************************************************)
(* encode: the overload set, dispatched on the shape of the value          *)
(***************************************************************************)
\* A body run without a rollback helper: what it wrote before the error stays
scoped_without_helper(s0, r) == r

\* A body run under `auto rollback_helper = buf.get_rollback_helper()`: r is the outcome of the
\* body started on s0; commit() is reached on success only, so the helper's destructor rolls the
\* sink back on every error return
scoped(s0, r) ==
   IF r.ec # success
   THEN [sink |-> rollback_nested_write(r.sink, begin_nested_write(s0)), ec |-> r.ec]
   ELSE r

RECURSIVE encode(_, _)
RECURSIVE encode_each(_, _, _)
RECURSIVE encode_pairs(_, _, _)

\* encode(buffer &, UnsignedInt) / encode(buffer &, SignedInt)
encode_int(s, v) ==
   IF v.signed /\ IsNeg(v.bits)
   THEN encode_argument(s, signed_int, LowBytes(SubW(MinusOne, v.bits), v.w))
   ELSE encode_argument(s, unsigned_int, LowBytes(v.bits, v.w))

\* encode(buffer &, buffer::const_span_t) and encode(buffer &, std::string_view)
encode_string(s, type, v) ==
   LET body(res) == IF res.ec # success THEN res ELSE write(res.sink, v)
   IN scoped(s, body(encode_argument(s, type, U64(Len(v)))))

\* encode(buffer &, std::span<T, Extent>)
encode_span(s, v) ==
   LET body(res) == IF res.ec # success THEN res ELSE encode_each(res.sink, v, 1)
   IN scoped(s, body(encode_argument(s, array, U64(Len(v)))))

\* encode(buffer &, const std::map<...> &)
encode_map(s, v) ==
   LET body(res) == IF res.ec # success THEN res ELSE encode_pairs(res.sink, v, 1)
   IN scoped(s, body(encode_argument(s, dictionary, U64(Len(v)))))

\* encode(buffer &, const T &) for EncodableStruct T (detail::encode_all over the members)
encode_struct(s, v) == scoped(s, encode_each(s, v, 1))

\* encode(buffer &, const boxed<T> &)
encode_boxed(s, v) ==
   LET value(res) == IF res.ec # success THEN res ELSE encode(res.sink, v)
       body(res) == IF res.ec # success THEN res ELSE value(encode(res.sink, v.id))
   IN scoped(s, body(encode_argument(s, array, LowBytes(U64(2), 4))))

\* encode(buffer &, const std::variant<T...> &)
encode_variant(s, v) ==
   LET id == v.ids[v.index]
       body(res) == IF res.ec # success THEN res ELSE encode(res.sink, v.v)
   IN scoped(s, body(encode(s, id)))

encode(s, v) ==
   CASE v.k = "int" -> encode_int(s, v)
     [] v.k = "enum" -> encode(s, v.v)
     [] v.k = "bytes" -> encode_string(s, byte_string, v.v)
     [] v.k = "text" -> encode_string(s, text_string, v.v)
     [] v.k = "bool" -> write(s, <<simple + (IF v.v THEN true_type ELSE false_type)>>)
     [] v.k = "null" -> write(s, <<simple + null_type>>)
     [] v.k = "optional" -> IF ~v.has_value THEN encode(s, NullV) ELSE encode(s, v.v)
     [] v.k = "float" -> IF v.w = 4 THEN encode_float(s, v.bits) ELSE encode_double(s, v.bits)
     [] v.k = "array" -> encode_span(s, v.v)
     [] v.k = "map" -> encode_map(s, v.v)
     [] v.k = "record" -> encode_struct(s, v.v)
     [] v.k = "boxed" -> encode_boxed(s, v.v)
     [] OTHER -> encode_variant(s, v)

\* the range-for / fold over elements: stops at the first error
encode_each(s, vs, i) ==
   IF i > Len(vs) THEN [sink |-> s, ec |-> success]
   ELSE LET res == encode(s, vs[i])
        IN IF res.ec # success THEN res ELSE encode_each(res.sink, vs, i + 1)

encode_pairs(s, ps, i) ==
   IF i > Len(ps) THEN [sink |-> s, ec |-> success]
   ELSE LET res == encode(s, ps[i][1])
            res2 == encode(res.sink, ps[i][2])
        IN IF res.ec # success THEN res
           ELSE IF res2.ec # success THEN res2
           ELSE encode_pairs(res2.sink, ps, i + 1)

(***************************************************************************)
(* Types to decode into                                                    *)
(***************************************************************************)
\* max_size_v<T>: the default of the max_size parameters, larger than any 64-bit argument
NoLimit == -1

IntT(signed, w) == [k |-> "int", signed |-> signed, w |-> w]
EnumT(signed, w) == [k |-> "enum", signed |-> signed, w |-> w]
BytesVectorT(max_size) == [k |-> "bytes_vector", max_size |-> max_size]
BytesArrayT(extent) == [k |-> "bytes_array", extent |-> extent]
TextT(max_size) == [k |-> "text", max_size |-> max_size]
BoolT == [k |-> "bool"]
OptionalT(t) == [k |-> "optional", t |-> t]
FloatT(w) == [k |-> "float", w |-> w]
SpanT(t, extent) == [k |-> "span", t |-> t, extent |-> extent]
VectorT(t, max_size) == [k |-> "vector", t |-> t, max_size |-> max_size]
MapT(kt, vt, max_size) == [k |-> "map", kt |-> kt, vt |-> vt, max_size |-> max_size]
RecordT(id, members) == [k |-> "record", id |-> id, members |-> members]
UnionT(alts) == [k |-> "union", alts |-> alts]

\* static_cast of a two's complement pattern to std::int64_t
SExt(b) == [i \in 1..(8 - Len(b)) |-> IF b[1] >= 128 THEN 255 ELSE 0] \o b

\* u64 > n and u64 < n for a 64-bit pattern and a small number
GtNat(u64, n) == ~IsSmall(u64) \/ SmallNat(u64) > n
LtNat(u64, n) == IsSmall(u64) /\ SmallNat(u64) < n
GtMaxSize(u64, max_size) == max_size # NoLimit /\ GtNat(u64, max_size)

\* A value-initialised object of type t
RECURSIVE DefaultV(_)
DefaultV(t) ==
   CASE t.k = "int" -> IntV(t.signed, t.w, Zeros(8))
     [] t.k = "enum" -> EnumV(IntV(t.signed, t.w, Zeros(8)))
     [] t.k = "bytes_vector" -> BytesV(<<>>)
     [] t.k = "bytes_array" -> BytesV(Zeros(t.extent))
     [] t.k = "text" -> TextV(<<>>)
     [] t.k = "bool" -> BoolV(FALSE)
     [] t.k = "optional" -> NoneV(t.t)
     [] t.k = "float" -> FloatV(t.w, Zeros(t.w))
     [] t.k = "span" -> ArrayV(TRUE, [i \in 1..t.extent |-> DefaultV(t.t)])
     [] t.k = "vector" -> ArrayV(FALSE, <<>>)
     [] t.k = "map" -> MapV(<<>>)
     [] t.k = "record" -> RecordV(t.id, [i \in 1..Len(t.members) |-> DefaultV(t.members[i])])
     [] OTHER -> UnionV([i \in 1..Len(t.alts) |-> t.alts[i].id], 1, DefaultV(t.alts[1]))

(***************************************************************************)
(* Head decoding (detail::head)                                            *)
(***************************************************************************)
\* detail::head head{}
head_new == [raw |-> 0, type |-> 0, simple |-> 0, extra_bytes |-> 0, argument |-> Zeros(8)]

\* The number of argument bytes announced by the five low bits of the initial byte
head_extra_bytes(a_size) ==
   CASE a_size = one_byte -> 1
     [] a_size = two_bytes -> 2
     [] a_size = four_bytes -> 4
     [] a_size = eight_bytes -> 8
     [] OTHER -> 0

\* A reserved-size test that knows the first reserved value only
head_reserved_first_only(a_size) == a_size = reserved_0

\* The cases of the switch in head::read that return ill_formed
head_reserved(a_size) == a_size \in {reserved_0, reserved_1, reserved_2}

\* A head::read that puts the cursor back where it was when it fails
head_read_restoring(src) ==
   LET from_byte(r0) ==
          LET a_size == r0.v % 32
              extra_bytes == head_extra_bytes(a_size)
              h0 == [head_new EXCEPT !.raw = r0.v, !.type = (r0.v \div 32) * 32, !.simple = r0.v % 32,
                                     !.extra_bytes = extra_bytes]
              from_argument(r1) ==
                 IF r1.ec # success THEN [source |-> src, ec |-> r1.ec, head |-> h0]
                 ELSE [source |-> r1.source, ec |-> success,
                       head |-> [h0 EXCEPT !.argument = r1.v \o Zeros(8 - extra_bytes)]]
          IN IF r0.ec # success THEN [source |-> src, ec |-> r0.ec, head |-> head_new]
             ELSE IF head_reserved(a_size)
                  THEN [source |-> src, ec |-> ill_formed, head |-> h0]
             ELSE from_argument(read_buffer_read_span(r0.source, extra_bytes, FALSE))
   IN from_byte(read_buffer_read_byte(src))

\* head::read(buf): r0 is the outcome of buf.read(b0), r1 that of the read of the argument bytes
head_read(src) ==
   LET from_byte(r0) ==
          LET raw == r0.v
              a_size == raw % 32
              h0 == [head_new EXCEPT !.raw = raw, !.type = (raw \div 32) * 32, !.simple = raw % 32]
              extra_bytes == head_extra_bytes(a_size)
              from_argument(r1) ==
                 IF r1.ec # success
                 THEN [source |-> r1.source, ec |-> r1.ec, head |-> [h0 EXCEPT !.extra_bytes = extra_bytes]]
                 ELSE [source |-> r1.source, ec |-> success,
                       head |-> [h0 EXCEPT !.extra_bytes = extra_bytes,
                                           !.argument = r1.v \o Zeros(8 - extra_bytes)]]
          IN IF r0.ec # success THEN [source |-> r0.source, ec |-> r0.ec, head |-> head_new]
             ELSE IF head_reserved(a_size)
                  THEN [source |-> r0.source, ec |-> ill_formed, head |-> h0]
             ELSE from_argument(read_buffer_read_span(r0.source, extra_bytes, FALSE))
   IN from_byte(read_buffer_read_byte(src))

\* A decode_argument that takes the argument bytes in little-endian order
decode_argument_little_endian(h) ==
   IF h.extra_bytes = 0 THEN U64(h.raw % 32)
   ELSE ZExt([i \in 1..h.extra_bytes |-> h.argument[h.extra_bytes + 1 - i]])

\* head::decode_argument: the big-endian argument as a 64-bit pattern
decode_argument(h) ==
   IF h.extra_bytes = 0 THEN U64(h.raw % 32)
   ELSE ZExt(SubSeq(h.argument, 1, h.extra_bytes))

(***************************************************************************)
(* decode: the overload set, dispatched on the type decoded into.          *)
(* decode(src, t, dst) is decode(buf, v) for v of type t holding dst; the  *)
(* result carries the source, the error code and v after the call.         *)
(***************************************************************************)
RECURSIVE decode(_, _, _)
RECURSIVE decode_elems(_, _, _, _, _)
RECURSIVE decode_members(_, _, _, _)
RECURSIVE decode_pairs(_, _, _, _, _)
RECURSIVE try_decode_all(_, _, _, _, _)
RECURSIVE try_decode_all_past_failure(_, _, _, _, _)

Fail(src, ec, dst) == [source |-> src, ec |-> ec, v |-> dst]

\* decode(read_buffer &, UnsignedInt T &)
decode_unsigned(src, t, dst) ==
   LET from_head(r) ==
          LET u64 == decode_argument(r.head)
          IN IF r.ec # success THEN Fail(r.source, r.ec, dst)
             ELSE IF r.head.type # unsigned_int THEN Fail(r.source, unexpected_type, dst)
             ELSE IF LtU(max_int_v(FALSE, t.w), u64) THEN Fail(r.source, value_not_representable, dst)
             ELSE [source |-> r.source, ec |-> success, v |-> IntV(FALSE, t.w, ZExt(LowBytes(u64, t.w)))]
   IN from_head(head_read(src))

\* decode(read_buffer &, SignedInt T &)
decode_signed(src, t, dst) ==
   LET from_head(r) ==
          LET u64 == decode_argument(r.head)
              n == SubW(MinusOne, u64)
          IN IF r.ec # success THEN Fail(r.source, r.ec, dst)
             ELSE IF r.head.type = unsigned_int
                  THEN IF LtU(max_int_v(TRUE, t.w), u64) THEN Fail(r.source, value_not_representable, dst)
                       ELSE [source |-> r.source, ec |-> success,
                             v |-> IntV(TRUE, t.w, SExt(LowBytes(u64, t.w)))]
             ELSE IF r.head.type # signed_int THEN Fail(r.source, unexpected_type, dst)
             ELSE IF LtU(max_int_v(TRUE, 8), u64) THEN Fail(r.source, value_not_representable, dst)
             ELSE IF LtS(n, min_int_v(TRUE, t.w)) THEN Fail(r.source, value_not_representable, dst)
             ELSE [source |-> r.source, ec |-> success, v |-> IntV(TRUE, t.w, SExt(LowBytes(n, t.w)))]
   IN from_head(head_read(src))

decode_int(src, t, dst) ==
   IF t.signed THEN decode_signed(src, t, dst) ELSE decode_unsigned(src, t, dst)

\* decode(read_buffer &, Enum T &)
decode_enum(src, t, dst) ==
   LET from_int(r) ==
          IF r.ec # success THEN Fail(r.source, r.ec, dst)
          ELSE [source |-> r.source, ec |-> success, v |-> EnumV(r.v)]
   IN from_int(decode_int(src, IntT(t.signed, t.w), IntV(t.signed, t.w, Zeros(8))))

\* buf.read(span) of a destination of u64 bytes; no bound memory holds 2^24 bytes or more
read_n(src, u64) ==
   IF IsSmall(u64) THEN read_buffer_read_span(src, SmallNat(u64), FALSE)
   ELSE [source |-> src, ec |-> IF src.bound THEN buffer_underflow ELSE invalid_usage, v |-> <<>>]

\* decode(read_buffer &, std::vector<std::byte> &, max_size) and decode(read_buffer &, std::basic_string &, max_size)
decode_string(src, type, max_size, dst) ==
   LET from_head(r) ==
          LET u64 == decode_argument(r.head)
              rd == read_n(r.source, u64)
          IN IF r.ec # success THEN Fail(r.source, r.ec, dst)
             ELSE IF r.head.type # type THEN Fail(r.source, unexpected_type, dst)
             ELSE IF GtMaxSize(u64, max_size) THEN Fail(r.source, buffer_overflow, dst)
             ELSE IF u64 = Zeros(8) THEN [source |-> r.source, ec |-> success, v |-> [dst EXCEPT !.v = <<>>]]
             ELSE IF rd.ec # success
                  THEN \* v.resize(u64) has already been done
                       Fail(rd.source, rd.ec,
                            [dst EXCEPT !.v = IF IsSmall(u64)
                                              THEN [i \in 1..SmallNat(u64) |-> IF i <= Len(dst.v) THEN dst.v[i] ELSE 0]
                                              ELSE dst.v])
             ELSE [source |-> rd.source, ec |-> success, v |-> [dst EXCEPT !.v = rd.v]]
   IN from_head(head_read(src))

\* A byte array decode that accepts a byte string shorter than the array
decode_byte_array_at_most(src, t, dst) ==
   LET from_head(r) ==
          LET u64 == decode_argument(r.head)
              from_read(rd) ==
                 IF rd.ec # success THEN Fail(rd.source, rd.ec, dst)
                 ELSE [source |-> rd.source, ec |-> success, v |-> BytesV(rd.v)]
          IN IF r.ec # success THEN Fail(r.source, r.ec, dst)
             ELSE IF r.head.type # byte_string THEN Fail(r.source, unexpected_type, dst)
             ELSE IF GtNat(u64, t.extent) THEN Fail(r.source, buffer_overflow, dst)
             ELSE IF u64 = Zeros(8) THEN [source |-> r.source, ec |-> success, v |-> dst]
             ELSE from_read(read_n(r.source, u64))
   IN from_head(head_read(src))

\* decode(read_buffer &, std::array<std::byte, Extent> &)
decode_byte_array(src, t, dst) ==
   LET from_head(r) ==
          LET u64 == decode_argument(r.head)
              rd == read_n(r.source, u64)
          IN IF r.ec # success THEN Fail(r.source, r.ec, dst)
             ELSE IF r.head.type # byte_string THEN Fail(r.source, unexpected_type, dst)
             ELSE IF GtNat(u64, t.extent) THEN Fail(r.source, buffer_overflow, dst)
             ELSE IF LtNat(u64, t.extent) THEN Fail(r.source, buffer_underflow, dst)
             ELSE IF u64 = Zeros(8) THEN [source |-> r.source, ec |-> success, v |-> dst]
             ELSE IF rd.ec # success THEN Fail(rd.source, rd.ec, dst)
             ELSE [source |-> rd.source, ec |-> success, v |-> BytesV(rd.v)]
   IN from_head(head_read(src))

\* decode(read_buffer &, bool &)
decode_bool(src, dst) ==
   LET from_head(r) ==
          IF r.ec # success THEN Fail(r.source, r.ec, dst)
          ELSE IF r.head.type # simple THEN Fail(r.source, unexpected_type, dst)
          ELSE IF r.head.simple = true_type THEN [source |-> r.source, ec |-> success, v |-> BoolV(TRUE)]
          ELSE IF r.head.simple = false_type THEN [source |-> r.source, ec |-> success, v |-> BoolV(FALSE)]
          ELSE Fail(r.source, unexpected_type, dst)
   IN from_head(head_read(src))

\* An optional decode whose probe of the first byte is not rolled back
decode_optional_consuming(src, t, dst) ==
   LET from_byte(r) ==
          LET nullptr_byte == simple + null_type
              from_value(rv) ==
                 IF rv.ec # success THEN Fail(rv.source, rv.ec, dst)
                 ELSE [source |-> rv.source, ec |-> success, v |-> SomeV(rv.v)]
          IN IF r.ec # success THEN Fail(r.source, r.ec, dst)
             ELSE IF r.v = nullptr_byte THEN [source |-> r.source, ec |-> success, v |-> NoneV(t.t)]
             ELSE from_value(decode(r.source, t.t, DefaultV(t.t)))
   IN from_byte(read_buffer_read_byte(src))

\* decode(read_buffer &, std::optional<T> &)
decode_optional(src, t, dst) ==
   LET start_position == src.read_position
       r == read_buffer_read_byte(src)
       nullptr_byte == simple + null_type
       rolled == read_buffer_reset(r.source, start_position)
       rv == decode(rolled, t.t, DefaultV(t.t))
   IN IF r.ec # success THEN Fail(read_buffer_reset(r.source, start_position), r.ec, dst)
      ELSE IF r.v = nullptr_byte THEN [source |-> r.source, ec |-> success, v |-> NoneV(t.t)]
      ELSE IF rv.ec # success THEN Fail(rv.source, rv.ec, dst)
      ELSE [source |-> rv.source, ec |-> success, v |-> SomeV(rv.v)]

\* std::numeric_limits<T>::infinity() and quiet_NaN(), negated when neg
InfBits(w, neg) ==
   IF w = 4 THEN <<IF neg THEN 255 ELSE 127, 128, 0, 0>>
   ELSE <<IF neg THEN 255 ELSE 127, 240, 0, 0, 0, 0, 0, 0>>

QNaNBits(w, neg) ==
   IF w = 4 THEN <<IF neg THEN 255 ELSE 127, 192, 0, 0>>
   ELSE <<IF neg THEN 255 ELSE 127, 248, 0, 0, 0, 0, 0, 0>>

\* detail::compare(head, array)
compare(h, v) == Len(v) = h.extra_bytes /\ SubSeq(h.argument, 1, h.extra_bytes) = v

\* static_cast<T>(float) for T of w bytes
FromSingle(single, w) == IF w = 4 THEN single ELSE Widen(single, FmtSingle, FmtDouble)

decode_hp(h, w) ==
   IF compare(h, <<124, 0>>) THEN [ec |-> success, bits |-> InfBits(w, FALSE)]
   ELSE IF compare(h, <<252, 0>>) THEN [ec |-> success, bits |-> InfBits(w, TRUE)]
   ELSE IF compare(h, <<126, 0>>) THEN [ec |-> success, bits |-> QNaNBits(w, FALSE)]
   ELSE [ec |-> success, bits |-> FromSingle(fhf_unpack(LowBytes(decode_argument(h), 2)), w)]

decode_sp(h, w) ==
   IF compare(h, <<127, 128, 0, 0>>) THEN [ec |-> success, bits |-> InfBits(w, FALSE)]
   ELSE IF compare(h, <<255, 128, 0, 0>>) THEN [ec |-> success, bits |-> InfBits(w, TRUE)]
   ELSE IF compare(h, <<127, 192, 0, 0>>) THEN [ec |-> success, bits |-> QNaNBits(w, TRUE)]
   ELSE [ec |-> success, bits |-> FromSingle(LowBytes(decode_argument(h), 4), w)]

decode_dp(h, w) ==
   LET result == decode_argument(h)
       checked(casted) ==
          IF fpclassify(result, 8) = "FP_NAN"
             \/ ~FloatEq(IF w = 8 THEN casted ELSE Widen(casted, FmtSingle, FmtDouble), result)
          THEN [ec |-> value_not_representable, bits |-> <<>>]
          ELSE [ec |-> success, bits |-> casted]
   IN IF compare(h, <<127, 240, 0, 0, 0, 0, 0, 0>>) THEN [ec |-> success, bits |-> InfBits(w, FALSE)]
      ELSE IF compare(h, <<255, 240, 0, 0, 0, 0, 0, 0>>) THEN [ec |-> success, bits |-> InfBits(w, TRUE)]
      ELSE IF compare(h, <<127, 248, 0, 0, 0, 0, 0, 0>>) THEN [ec |-> success, bits |-> QNaNBits(w, TRUE)]
      ELSE checked(IF w = 8 THEN result ELSE Narrow(result, FmtDouble, FmtSingle))

\* detail::decode_float
decode_float(src, t, dst) ==
   LET from_head(r) ==
          LET converted(d) ==
                 IF d.ec # success THEN Fail(r.source, d.ec, dst)
                 ELSE [source |-> r.source, ec |-> success, v |-> FloatV(t.w, d.bits)]
          IN IF r.ec # success THEN Fail(r.source, r.ec, dst)
             ELSE IF r.head.type # simple THEN Fail(r.source, unexpected_type, dst)
             ELSE CASE r.head.simple = hp_float -> converted(decode_hp(r.head, t.w))
                    [] r.head.simple = sp_float -> converted(decode_sp(r.head, t.w))
                    [] r.head.simple = dp_float -> converted(decode_dp(r.head, t.w))
                    [] OTHER -> Fail(r.source, unexpected_type, dst)
   IN from_head(head_read(src))

\* the loop `for (i = 0; i < u64; ++i) decode(buf, v[i])` from element i (one-based) on
decode_elems(src, t, vs, i, n) ==
   IF i > n THEN [source |-> src, ec |-> success, v |-> vs]
   ELSE LET r == decode(src, t, vs[i])
        IN IF r.ec # success THEN Fail(r.source, r.ec, [vs EXCEPT ![i] = r.v])
           ELSE decode_elems(r.source, t, [vs EXCEPT ![i] = r.v], i + 1, n)

\* A span decode that accepts an array with more elements than the span
decode_span_at_least(src, t, dst) ==
   LET from_head(r) ==
          LET u64 == decode_argument(r.head)
              from_elems(e) == [source |-> e.source, ec |-> e.ec, v |-> [dst EXCEPT !.v = e.v]]
          IN IF r.ec # success THEN Fail(r.source, r.ec, dst)
             ELSE IF r.head.type # array THEN Fail(r.source, unexpected_type, dst)
             ELSE IF LtNat(u64, t.extent) THEN Fail(r.source, buffer_underflow, dst)
             ELSE IF u64 = Zeros(8) THEN [source |-> r.source, ec |-> success, v |-> dst]
             ELSE from_elems(decode_elems(r.source, t.t, dst.v, 1, t.extent))
   IN from_head(head_read(src))

\* decode(read_buffer &, std::span<T, Extent>) and, through it, std::array<T, Extent>
decode_span(src, t, dst) ==
   LET from_head(r) ==
          LET u64 == decode_argument(r.head)
              e == decode_elems(r.source, t.t, dst.v, 1, t.extent)
          IN IF r.ec # success THEN Fail(r.source, r.ec, dst)
             ELSE IF r.head.type # array THEN Fail(r.source, unexpected_type, dst)
             ELSE IF GtNat(u64, t.extent) THEN Fail(r.source, buffer_overflow, dst)
             ELSE IF LtNat(u64, t.extent) THEN Fail(r.source, buffer_underflow, dst)
             ELSE IF u64 = Zeros(8) THEN [source |-> r.source, ec |-> success, v |-> dst]
             ELSE [source |-> e.source, ec |-> e.ec, v |-> [dst EXCEPT !.v = e.v]]
   IN from_head(head_read(src))

\* decode(read_buffer &, std::vector<T> &, max_size); every element decode reads at least one
\* byte, so of a count beyond the bound memory only the first Len(span) + 1 elements are tried
decode_vector(src, t, dst) ==
   LET from_head(r) ==
          LET u64 == decode_argument(r.head)
              n == IF IsSmall(u64) THEN SmallNat(u64) ELSE Len(src.span) + 1
              resized == [i \in 1..n |-> IF i <= Len(dst.v) THEN dst.v[i] ELSE DefaultV(t.t)]
              e == decode_elems(r.source, t.t, resized, 1, n)
          IN IF r.ec # success THEN Fail(r.source, r.ec, dst)
             ELSE IF r.head.type # array THEN Fail(r.source, unexpected_type, dst)
             ELSE IF GtMaxSize(u64, t.max_size) THEN Fail(r.source, buffer_overflow, dst)
             ELSE IF u64 = Zeros(8) THEN [source |-> r.source, ec |-> success, v |-> [dst EXCEPT !.v = <<>>]]
             ELSE [source |-> e.source, ec |-> e.ec, v |-> [dst EXCEPT !.v = e.v]]
   IN from_head(head_read(src))

\* std::less on the keys of a std::map: integers by value, strings lexicographically
RECURSIVE LexLt(_, _)
LexLt(a, b) ==
   IF b = <<>> THEN FALSE
   ELSE IF a = <<>> THEN TRUE
   ELSE IF a[1] # b[1] THEN a[1] < b[1]
   ELSE LexLt(Tail(a), Tail(b))

KeyLess(a, b) ==
   IF a.k = "int" THEN (IF a.signed THEN LtS(a.bits, b.bits) ELSE LtU(a.bits, b.bits))
   ELSE LexLt(a.v, b.v)

\* An insert that assigns the value when the key is present, as operator[] and insert_or_assign do
map_insert_or_assign(pairs, key, value) ==
   IF \E i \in 1..Len(pairs) : pairs[i][1] = key
   THEN [i \in 1..Len(pairs) |-> IF pairs[i][1] = key THEN <<key, value>> ELSE pairs[i]]
   ELSE LET below == Cardinality({i \in 1..Len(pairs) : KeyLess(pairs[i][1], key)})
        IN SubSeq(pairs, 1, below) \o <<(<<key, value>>)>> \o SubSeq(pairs, below + 1, Len(pairs))

\* std::map::insert: no effect when the key is present, otherwise the pair goes to its sorted place
map_insert(pairs, key, value) ==
   IF \E i \in 1..Len(pairs) : pairs[i][1] = key THEN pairs
   ELSE LET below == Cardinality({i \in 1..Len(pairs) : KeyLess(pairs[i][1], key)})
        IN SubSeq(pairs, 1, below) \o <<(<<key, value>>)>> \o SubSeq(pairs, below + 1, Len(pairs))

\* the loop of the dictionary decode from pair i (one-based) on
decode_pairs(src, t, pairs, i, n) ==
   IF i > n THEN [source |-> src, ec |-> success, v |-> pairs]
   ELSE LET rk == decode(src, t.kt, DefaultV(t.kt))
            rv == decode(rk.source, t.vt, DefaultV(t.vt))
        IN IF rk.ec # success THEN Fail(rk.source, rk.ec, pairs)
           ELSE IF rv.ec # success THEN Fail(rv.source, rv.ec, pairs)
           ELSE decode_pairs(rv.source, t, map_insert(pairs, rk.v, rv.v), i + 1, n)

\* decode(read_buffer &, Dictionary T &, max_size)
decode_map(src, t, dst) ==
   LET from_head(r) ==
          LET num_pairs == decode_argument(r.head)
              n == IF IsSmall(num_pairs) THEN SmallNat(num_pairs) ELSE Len(src.span) + 1
              e == decode_pairs(r.source, t, dst.v, 1, n)
          IN IF r.ec # success THEN Fail(r.source, r.ec, dst)
             ELSE IF r.head.type # dictionary THEN Fail(r.source, unexpected_type, dst)
             ELSE IF GtMaxSize(num_pairs, t.max_size) THEN Fail(r.source, buffer_overflow, dst)
             ELSE IF num_pairs = Zeros(8) THEN [source |-> r.source, ec |-> success, v |-> dst]
             ELSE [source |-> e.source, ec |-> e.ec, v |-> [dst EXCEPT !.v = e.v]]
   IN from_head(head_read(src))

\* detail::decode_all: the members in order, stopping at the first failure
decode_members(src, ts, vs, i) ==
   IF i > Len(ts) THEN [source |-> src, ec |-> success, v |-> vs]
   ELSE LET r == decode(src, ts[i], vs[i])
        IN IF r.ec # success THEN Fail(r.source, r.ec, [vs EXCEPT ![i] = r.v])
           ELSE decode_members(r.source, ts, [vs EXCEPT ![i] = r.v], i + 1)

\* A struct decode that accepts any array head, whatever its count
decode_struct_any_count(src, t, dst) ==
   LET from_head(r) ==
          LET m == decode_members(r.source, t.members, dst.v, 1)
          IN IF r.ec # success THEN Fail(r.source, r.ec, dst)
             ELSE IF r.head.type # array THEN Fail(r.source, unexpected_type, dst)
             ELSE [source |-> m.source, ec |-> m.ec, v |-> [dst EXCEPT !.v = m.v]]
   IN from_head(head_read(src))

\* decode(read_buffer &, DecodableStruct T &)
decode_struct(src, t, dst) ==
   LET from_head(r) ==
          LET num_fields == Len(t.members)
              u64 == decode_argument(r.head)
              m == decode_members(r.source, t.members, dst.v, 1)
          IN IF r.ec # success THEN Fail(r.source, r.ec, dst)
             ELSE IF r.head.type # array THEN Fail(r.source, unexpected_type, dst)
             ELSE IF u64 # U64(num_fields) THEN Fail(r.source, decoding_error, dst)
             ELSE [source |-> m.source, ec |-> m.ec, v |-> [dst EXCEPT !.v = m.v]]
   IN from_head(head_read(src))

\* A try_decode that decodes the payload straight into the variant, as its i-th alternative
try_decode_in_place(src, t, dst, i) ==
   LET r == decode(src, t.alts[i], DefaultV(t.alts[i]))
   IN [source |-> r.source, ec |-> r.ec,
       v |-> UnionV([j \in 1..Len(t.alts) |-> t.alts[j].id], i, r.v)]

\* detail::try_decode<Current> for the i-th alternative, once its type_id matched: the payload is
\* decoded into a fresh Current and assigned to the variant on success only
try_decode(src, t, dst, i) ==
   LET r == decode(src, t.alts[i], DefaultV(t.alts[i]))
   IN IF r.ec # success THEN Fail(r.source, r.ec, dst)
      ELSE [source |-> r.source, ec |-> success,
            v |-> UnionV([j \in 1..Len(t.alts) |-> t.alts[j].id], i, r.v)]

\* A try_decode_all that goes on to the next alternative when the payload of the matching one
\* fails to decode
try_decode_all_past_failure(type_id, src, t, dst, i) ==
   IF i > Len(t.alts) THEN Fail(src, unexpected_type, dst)
   ELSE IF t.alts[i].id.bits # type_id THEN try_decode_all_past_failure(type_id, src, t, dst, i + 1)
   ELSE LET r == decode(src, t.alts[i], DefaultV(t.alts[i]))
        IN IF r.ec # success THEN try_decode_all_past_failure(type_id, r.source, t, dst, i + 1)
           ELSE [source |-> r.source, ec |-> success,
                 v |-> UnionV([j \in 1..Len(t.alts) |-> t.alts[j].id], i, r.v)]

\* detail::try_decode_all: try_decode of the alternatives in declaration order from i on
try_decode_all(type_id, src, t, dst, i) ==
   IF i > Len(t.alts) THEN Fail(src, unexpected_type, dst)
   ELSE IF t.alts[i].id.bits # type_id THEN try_decode_all(type_id, src, t, dst, i + 1)
   ELSE try_decode(src, t, dst, i)

\* A variant decode that reads the array header as a head and accepts any head of an array of two
decode_variant_by_head(src, t, dst) ==
   LET from_head(r0) ==
          LET r1 == decode(r0.source, IntT(TRUE, 8), IntV(TRUE, 8, Zeros(8)))
          IN IF r0.ec # success THEN Fail(r0.source, r0.ec, dst)
             ELSE IF r0.head.type # array \/ decode_argument(r0.head) # U64(2)
                  THEN Fail(r0.source, decoding_error, dst)
             ELSE IF r1.ec # success THEN Fail(r1.source, r1.ec, dst)
             ELSE try_decode_all(r1.v.bits, r1.source, t, dst, 1)
   IN from_head(head_read(src))

\* decode(read_buffer &, std::variant<T...> &)
decode_variant(src, t, dst) ==
   LET r0 == read_buffer_read_byte(src)
       array_byte == array + 2
       r1 == decode(r0.source, IntT(TRUE, 8), IntV(TRUE, 8, Zeros(8)))
   IN IF r0.ec # success THEN Fail(r0.source, r0.ec, dst)
      ELSE IF r0.v # array_byte THEN Fail(r0.source, decoding_error, dst)
      ELSE IF r1.ec # success THEN Fail(r1.source, r1.ec, dst)
      ELSE try_decode_all(r1.v.bits, r1.source, t, dst, 1)

decode(src, t, dst) ==
   CASE t.k = "int" -> decode_int(src, t, dst)
     [] t.k = "enum" -> decode_enum(src, t, dst)
     [] t.k = "bytes_vector" -> decode_string(src, byte_string, t.max_size, dst)
     [] t.k = "bytes_array" -> decode_byte_array(src, t, dst)
     [] t.k = "text" -> decode_string(src, text_string, t.max_size, dst)
     [] t.k = "bool" -> decode_bool(src, dst)
     [] t.k = "optional" -> decode_optional(src, t, dst)
     [] t.k = "float" -> decode_float(src, t, dst)
     [] t.k = "span" -> decode_span(src, t, dst)
     [] t.k = "vector" -> decode_vector(src, t, dst)
     [] t.k = "map" -> decode_map(src, t, dst)
     [] t.k = "record" -> decode_struct(src, t, dst)
     [] OTHER -> decode_variant(src, t, dst)

(***************************************************************************)
(* The state machine                                                       *)
(***************************************************************************)
Builds == [growth : Growths, initial_size : 0..MaxInitialSize]

\* a build whose choices no static sink and no unlimited dynamic sink reads
DefaultBuild == [growth |-> "libstdcxx", initial_size |-> 0]

Last(op, ec, arg, v) ==
   [op |-> op, ec |-> ec, arg |-> arg, v |-> v, sink0 |-> sink, source0 |-> source]

NoLast == [op |-> "none", ec |-> success, arg |-> <<>>, v |-> <<>>,
           sink0 |-> static_buffer_new(0), source0 |-> read_buffer_unbound]

\* The arguments of the raw writes: <<>>, <<1>>, <<1, 2>>, ...
WriteInputs == {[i \in 1..n |-> i] : n \in 0..MaxWrite}

\* two record types with a type_id, and the values encoded into the sink: one of every kind
Rec1T == RecordT(UIntV(8, 48879), <<IntT(TRUE, 1), TextT(NoLimit)>>)
Rec2T == RecordT(UIntV(8, 57007), <<BoolT>>)
Rec1V == RecordV(UIntV(8, 48879), <<SIntV(1, 1), TextV(<<97>>)>>)
Rec2V == RecordV(UIntV(8, 57007), <<BoolV(TRUE)>>)
Union1T == UnionT(<<Rec1T, Rec2T>>)
\* a record type whose type_id is 2^63, and a union with it
Rec3T == RecordT(IntV(FALSE, 8, <<128, 0, 0, 0, 0, 0, 0, 0>>), <<BoolT>>)
Union2T == UnionT(<<Rec2T, Rec3T>>)
UnionIds == <<UIntV(8, 48879), UIntV(8, 57007)>>

Values ==
   << [v |-> UIntV(1, 7), t |-> IntT(FALSE, 1)],
      [v |-> SIntV(4, -100), t |-> IntT(TRUE, 4)],
      [v |-> EnumV(UIntV(2, 1000)), t |-> EnumT(FALSE, 2)],
      [v |-> BytesV(<<1, 2>>), t |-> BytesVectorT(NoLimit)],
      [v |-> TextV(<<97>>), t |-> TextT(NoLimit)],
      [v |-> BoolV(TRUE), t |-> BoolT],
      [v |-> NoneV(IntT(FALSE, 1)), t |-> OptionalT(IntT(FALSE, 1))],
      [v |-> SomeV(UIntV(1, 24)), t |-> OptionalT(IntT(FALSE, 1))],
      [v |-> FloatV(4, <<63, 192, 0, 0>>), t |-> FloatT(4)],
      [v |-> FloatV(8, <<63, 241, 153, 153, 153, 153, 153, 154>>), t |-> FloatT(8)],
      [v |-> ArrayV(FALSE, <<UIntV(1, 1), UIntV(1, 24)>>), t |-> VectorT(IntT(FALSE, 1), NoLimit)],
      [v |-> ArrayV(TRUE, <<BoolV(FALSE), BoolV(TRUE)>>), t |-> SpanT(BoolT, 2)],
      [v |-> MapV(<< <<SIntV(4, 1), TextV(<<49>>)>> >>), t |-> MapT(IntT(TRUE, 4), TextT(NoLimit), NoLimit)],
      [v |-> Rec1V, t |-> Rec1T],
      [v |-> UnionV(UnionIds, 1, Rec1V), t |-> Union1T],
      [v |-> UnionV(UnionIds, 2, Rec2V), t |-> Union1T] >>

\* values that are encoded but not decoded: nullptr and boxed values
EncodeOnly == << NullV, BoxedV(Rec2V) >>

ToEncode == [i \in DOMAIN Values |-> Values[i].v] \o EncodeOnly

\* the value encoded between raw writes: a composite item of four bytes (82 01 18 18)
SinkValues == << ArrayV(FALSE, <<UIntV(1, 1), UIntV(1, 24)>>) >>

\* buffer::write(const_span_t)
Write(v) ==
   /\ size(sink) < MaxSize
   /\ LET done(r) == /\ sink' = r.sink
                      /\ last' = Last("write", r.ec, v, <<>>)
      IN done(write(sink, v))
   /\ UNCHANGED <<build, source, helpers, scopes, input, sent, received>>

\* encode(buf, v)
Encode(v) ==
   /\ size(sink) < MaxFill
   /\ LET done(r) == /\ sink' = r.sink
                      /\ last' = Last("encode", r.ec, v, <<>>)
      IN done(encode(sink, v))
   /\ UNCHANGED <<build, source, helpers, scopes, input, sent, received>>

\* buffer::get_rollback_helper(): a helper object comes to life
GetRollbackHelper ==
   /\ Len(helpers) < MaxHelpers
   /\ Len(scopes) < MaxScopes
   /\ helpers' = Append(helpers, rollback_helper_new("write", begin_nested_write(sink), Len(scopes) + 1))
   /\ scopes' = Append(scopes, [at |-> size(sink), committed |-> FALSE, rollbacks |-> 0])
   /\ last' = Last("get_rollback_helper", success, Len(scopes) + 1, <<>>)
   /\ UNCHANGED <<build, sink, source, input, sent, received>>

\* read_buffer::get_rollback_helper()
GetReadRollbackHelper ==
   /\ Len(helpers) < MaxHelpers
   /\ Len(scopes) < MaxScopes
   /\ helpers' = Append(helpers, rollback_helper_new("read", source.read_position, Len(scopes) + 1))
   /\ scopes' = Append(scopes, [at |-> source.read_position, committed |-> FALSE, rollbacks |-> 0])
   /\ last' = Last("get_rollback_helper", success, Len(scopes) + 1, <<>>)
   /\ UNCHANGED <<build, sink, source, input, sent, received>>

\* rollback_helper::commit() on the i-th helper alive
Commit(i) ==
   /\ helpers' = [helpers EXCEPT ![i] = rollback_helper_commit(@)]
   /\ scopes' = IF helpers[i].buf THEN [scopes EXCEPT ![helpers[i].id].committed = TRUE] ELSE scopes
   /\ last' = Last("commit", success, helpers[i], <<>>)
   /\ UNCHANGED <<build, sink, source, input, sent, received>>

\* rollback_helper(rollback_helper &&o) with o the i-th helper alive
MoveConstruct(i) ==
   /\ Len(helpers) < MaxHelpers
   /\ helpers' = Append([helpers EXCEPT ![i] = rollback_helper_moved_from(@)], helpers[i])
   /\ last' = Last("move", success, helpers[i], <<>>)
   /\ UNCHANGED <<build, sink, source, scopes, input, sent, received>>

\* operator=(rollback_helper &&o): the j-th helper alive takes over the state of the i-th (j = i
\* is a self-move: every member is copied onto itself before the source side is cleared)
MoveAssign(i, j) ==
   /\ helpers[i].cls = helpers[j].cls
   /\ helpers' = [[helpers EXCEPT ![j] = helpers[i]] EXCEPT ![i] = rollback_helper_moved_from(helpers[i])]
   /\ last' = Last("move_assign", success, helpers[i], helpers[j])
   /\ UNCHANGED <<build, sink, source, scopes, input, sent, received>>

Remove(seq, i) == SubSeq(seq, 1, i - 1) \o SubSeq(seq, i + 1, Len(seq))

\* ~rollback_helper() of the i-th helper alive
Destroy(i) ==
   LET h == helpers[i]
   IN /\ helpers' = Remove(helpers, i)
      /\ IF rollback_helper_rolls_back(h)
         THEN /\ scopes' = [scopes EXCEPT ![h.id].rollbacks = @ + 1]
              /\ IF h.cls = "write"
                 THEN sink' = rollback_nested_write(sink, h.token) /\ UNCHANGED source
                 ELSE source' = read_buffer_reset(source, h.token) /\ UNCHANGED sink
         ELSE UNCHANGED <<sink, source, scopes>>
      /\ last' = Last("destroy", success, h, <<>>)
      /\ UNCHANGED <<build, input, sent, received>>

(***************************************************************************)
(* Spec: a sink under writes, encodes and rollback scopes                  *)
(***************************************************************************)
Init ==
   /\ \/ /\ build \in Builds
         /\ \E c \in (0..MaxCap) \cup {unlimited_capacity} : sink = dynamic_buffer_new(c)
      \/ /\ build = DefaultBuild
         /\ \E e \in 0..MaxExtent : sink = static_buffer_new(e)
   /\ source = read_buffer_unbound
   /\ helpers = <<>>
   /\ scopes = <<>>
   /\ input = <<>>
   /\ last = NoLast
   /\ sent = <<>>
   /\ received = <<>>

Next ==
   \/ \E v \in WriteInputs : Write(v)
   \/ \E i \in DOMAIN SinkValues : Encode(SinkValues[i])
   \/ Len(scopes) < MaxSinkScopes /\ GetRollbackHelper
   \/ \E i \in DOMAIN helpers : Commit(i)
   \/ \E i \in DOMAIN helpers : Destroy(i)

Spec == Init /\ [][Next]_vars

(***************************************************************************)
(* SpecEncode: a sink under encodes of every kind of value                 *)
(***************************************************************************)
NextEncode == \E i \in DOMAIN ToEncode : Encode(ToEncode[i])

SpecEncode == Init /\ [][NextEncode]_vars

(***************************************************************************)
(* SpecSource: a read source under reads, resets, head reads and decodes   *)
(***************************************************************************)
\* The bound memory: well-formed items, truncated items and ill-formed heads
Streams ==
   << <<>>, <<7>>, <<24>>, <<24, 255>>, <<25, 1>>, <<28>>, <<31>>, <<56, 128>>, <<245>>, <<246>>,
      <<249, 62, 0>>, <<249, 62>>, <<66, 1, 2>>, <<66, 1>>, <<97, 97>>, <<130, 1, 24, 24>>, <<130, 1>>,
      <<161, 1, 97, 49>>, <<161, 1>>, <<130, 1, 97, 97>>, <<130, 25, 190, 239, 130, 1, 97, 97>>,
      <<130, 25, 190, 239, 130, 1>>, <<130, 7, 245>>, <<25, 190, 239, 1, 97, 97>>, <<129, 245>>,
      <<152, 2, 25, 190, 239, 130, 1, 97, 97>>, <<130, 25, 190, 239, 129, 245>>,
      <<130, 25, 222, 175, 129, 245>>, <<130, 27, 128, 0, 0, 0, 0, 0, 0, 0, 129, 245>>,
      <<161, 1, 97, 50>>, <<162, 1, 97, 49, 2, 97, 50>>, <<162, 1, 97, 49, 1, 97, 50>> >>

\* What the memory after the bound span may hold
BeyondBytes == {0, 255}

\* The types decoded into: those of Values and some that do not fit the streams
DecodeTypes ==
   [i \in DOMAIN Values |-> Values[i].t] \o
   << IntT(TRUE, 1), IntT(FALSE, 8), BytesVectorT(1), BytesVectorT(2), BytesArrayT(1), BytesArrayT(2),
      BytesArrayT(3), Rec2T, SpanT(BoolT, 1), VectorT(IntT(FALSE, 1), 1), VectorT(IntT(FALSE, 1), 2),
      Union2T >>

\* Operations on the source are no longer started once the cursor is this far past the end
MaxBeyond == 1

InBounds == source.read_position <= Len(source.span) + MaxBeyond

\* read_buffer::read(std::byte &)
ReadByte ==
   /\ InBounds
   /\ LET r == read_buffer_read_byte(source)
      IN /\ source' = r.source
         /\ last' = Last("read", r.ec, 1, <<r.v>>)
   /\ UNCHANGED <<build, sink, helpers, scopes, input, sent, received>>

\* read_buffer::read(buffer::span_t) into a destination of n bytes (a null one when dest_null)
ReadSpan(n, dest_null) ==
   /\ InBounds
   /\ dest_null => n = 0
   /\ LET r == read_buffer_read_span(source, n, dest_null)
      IN /\ source' = r.source
         /\ last' = Last("read_span", r.ec, n, r.v)
   /\ UNCHANGED <<build, sink, helpers, scopes, input, sent, received>>

\* read_buffer::reset(position)
Reset(position) ==
   /\ source' = read_buffer_reset(source, position)
   /\ last' = Last("reset", success, position, <<>>)
   /\ UNCHANGED <<build, sink, helpers, scopes, input, sent, received>>

\* detail::head::read(buf) on a fresh head
HeadRead ==
   /\ InBounds
   /\ LET done(r) == /\ source' = r.source
                      /\ last' = Last("head_read", r.ec, <<>>, r.head)
      IN done(head_read(source))
   /\ UNCHANGED <<build, sink, helpers, scopes, input, sent, received>>

\* decode(buf, v) for a default-constructed v of type t
Decode(t) ==
   /\ InBounds
   /\ LET done(r) == /\ source' = r.source
                      /\ last' = Last("decode", r.ec, t, r.v)
      IN done(decode(source, t, DefaultV(t)))
   /\ UNCHANGED <<build, sink, helpers, scopes, input, sent, received>>

\* destinations that hold a value before the decode: a union whose second alternative is
\* active, and a map with one entry
Destinations ==
   << [v |-> UnionV(UnionIds, 2, Rec2V), t |-> Union1T],
      [v |-> MapV(<< <<SIntV(4, 1), TextV(<<50>>)>> >>), t |-> MapT(IntT(TRUE, 4), TextT(NoLimit), NoLimit)] >>

\* decode(buf, v) for a v of type t that holds the value dst
DecodeInto(t, dst) ==
   /\ InBounds
   /\ LET done(r) == /\ source' = r.source
                      /\ last' = Last("decode_into", r.ec, [t |-> t, dst |-> dst], r.v)
      IN done(decode(source, t, dst))
   /\ UNCHANGED <<build, sink, helpers, scopes, input, sent, received>>

InitSource ==
   /\ build = DefaultBuild
   /\ sink = static_buffer_new(0)
   /\ \/ \E i \in DOMAIN Streams : \E b \in BeyondBytes : source = read_buffer_new(Streams[i], b)
      \/ source = read_buffer_unbound
   /\ helpers = <<>>
   /\ scopes = <<>>
   /\ input = <<>>
   /\ last = NoLast
   /\ sent = <<>>
   /\ received = <<>>

NextSource ==
   \/ ReadByte
   \/ \E n \in 0..MaxWrite : \E dest_null \in BOOLEAN : ReadSpan(n, dest_null)
   \/ \E position \in 0..(Len(source.span) + MaxBeyond) : Reset(position)
   \/ HeadRead
   \/ \E i \in DOMAIN DecodeTypes : Decode(DecodeTypes[i])
   \/ \E i \in DOMAIN Destinations : DecodeInto(Destinations[i].t, Destinations[i].v)

SpecSource == InitSource /\ [][NextSource]_vars

(***************************************************************************)
(* SpecScope: rollback helpers of a sink and of a source                   *)
(***************************************************************************)
InitScope ==
   /\ build = DefaultBuild
   /\ sink \in {dynamic_buffer_new(unlimited_capacity), static_buffer_new(MaxExtent)}
   /\ source = read_buffer_new([i \in 1..MaxExtent |-> i], 0)
   /\ helpers = <<>>
   /\ scopes = <<>>
   /\ input = <<>>
   /\ last = NoLast
   /\ sent = <<>>
   /\ received = <<>>

NextScope ==
   \/ Write(<<1>>)
   \/ ReadByte
   \/ GetRollbackHelper
   \/ GetReadRollbackHelper
   \/ \E i \in DOMAIN helpers : Commit(i)
   \/ \E i \in DOMAIN helpers : MoveConstruct(i)
   \/ \E i, j \in DOMAIN helpers : MoveAssign(i, j)
   \/ \E i \in DOMAIN helpers : Destroy(i)

SpecScope == InitScope /\ [][NextScope]_vars

(***************************************************************************)
(* SpecNested: rollback helpers of one sink that are destroyed in reverse  *)
(* order of creation, as automatic objects in nested blocks are            *)
(***************************************************************************)
NextNested ==
   \/ \E v \in WriteInputs : Write(v)
   \/ GetRollbackHelper
   \/ \E i \in DOMAIN helpers : Commit(i)
   \/ helpers # <<>> /\ Destroy(Len(helpers))

SpecNested == InitScope /\ [][NextNested]_vars

(***************************************************************************)
(* SpecCodec: items encoded one after another into an unlimited sink, then *)
(* decoded one after another from a source bound to the produced bytes     *)
(***************************************************************************)
\* encode(buf, v) for v of type t, before the source is bound
EncodeItem(v, t) ==
   /\ ~source.bound
   /\ LET done(r) ==
             /\ sink' = r.sink
             /\ sent' = Append(sent, [v |-> v, t |-> t, ec |-> r.ec, from |-> size(sink), to |-> size(r.sink)])
             /\ last' = Last("encode", r.ec, v, <<>>)
      IN done(encode(sink, v))
   /\ UNCHANGED <<build, source, helpers, scopes, input, received>>

CodecEncode(i) ==
   /\ Len(sent) < MaxItems
   /\ EncodeItem(Values[i].v, Values[i].t)

\* read_buffer buf{span over the bytes of the sink}
Bind ==
   /\ ~source.bound
   /\ sent # <<>>
   /\ source' = read_buffer_new(committed(sink), 0)
   /\ last' = Last("bind", success, <<>>, <<>>)
   /\ UNCHANGED <<build, sink, helpers, scopes, input, sent, received>>

\* decode(buf, v) for a default-constructed v of the type of the next item sent
DecodeNext ==
   /\ source.bound
   /\ Len(received) < Len(sent)
   /\ LET t == sent[Len(received) + 1].t
          done(r) ==
             /\ source' = r.source
             /\ received' = Append(received, [v |-> r.v, ec |-> r.ec, from |-> source.read_position,
                                              to |-> r.source.read_position])
             /\ last' = Last("decode", r.ec, t, r.v)
      IN done(decode(source, t, DefaultV(t)))
   /\ UNCHANGED <<build, sink, helpers, scopes, input, sent>>

InitCodec ==
   /\ build = DefaultBuild
   /\ sink = dynamic_buffer_new(unlimited_capacity)
   /\ source = read_buffer_unbound
   /\ helpers = <<>>
   /\ scopes = <<>>
   /\ input = <<>>
   /\ last = NoLast
   /\ sent = <<>>
   /\ received = <<>>

NextCodec ==
   \/ \E i \in DOMAIN Values : CodecEncode(i)
   \/ Bind
   \/ DecodeNext

SpecCodec == InitCodec /\ [][NextCodec]_vars

(***************************************************************************)
(* SpecInt: one integer of any of the eight types, encoded and decoded     *)
(***************************************************************************)
\* The bytes the integers drawn are made of: around the thresholds of the argument sizes (p = 0)
\* and around the sign bit
IntBytes == {0, 1, 23, 24, 127, 128, 255}

\* The 64-bit pattern with byte b at position p (0 is the least significant) over p bytes f
Pattern(b, p, f) == Zeros(7 - p) \o <<b>> \o [i \in 1..p |-> f]

Complement(a) == [i \in 1..Len(a) |-> 255 - a[i]]

Patterns == {Pattern(b, p, f) : b \in IntBytes, p \in 0..7, f \in {0, 255}}

\* The 64-bit patterns that are values of the (signed or unsigned) type of w bytes
InRange(signed, w, bits) ==
   IF signed THEN SExt(LowBytes(bits, w)) = bits ELSE ZExt(LowBytes(bits, w)) = bits

IntInputs ==
   {IntV(signed, w, bits) : signed \in BOOLEAN, w \in {1, 2, 4, 8},
                            bits \in Patterns \cup {Complement(a) : a \in Patterns}}

EncodeInput ==
   /\ sent = <<>>
   /\ EncodeItem(input, IntT(input.signed, input.w))

InitInt ==
   /\ build = DefaultBuild
   /\ sink = dynamic_buffer_new(unlimited_capacity)
   /\ source = read_buffer_unbound
   /\ helpers = <<>>
   /\ scopes = <<>>
   /\ input \in {v \in IntInputs : InRange(v.signed, v.w, v.bits)}
   /\ last = NoLast
   /\ sent = <<>>
   /\ received = <<>>

NextInt ==
   \/ EncodeInput
   \/ Bind
   \/ DecodeNext

SpecInt == InitInt /\ [][NextInt]_vars

(***************************************************************************)
(* SpecHead: memory that starts with any initial byte, read as a head and  *)
(* decoded into the eight integer types                                    *)
(***************************************************************************)
InitialBytes == 0..255

\* The bytes after the initial byte: none, or eight bytes whose prefixes of 1, 2, 4 and 8 bytes
\* are arguments around the limits of the integer types
HeadTails ==
   << <<>>,
      <<0, 0, 0, 0, 0, 0, 0, 127>>, <<0, 0, 0, 0, 0, 0, 0, 128>>,
      <<0, 127, 0, 0, 0, 0, 0, 255>>, <<0, 128, 0, 0, 0, 0, 1, 0>>,
      <<0, 255, 0, 0, 0, 0, 127, 255>>, <<1, 0, 0, 0, 0, 0, 128, 0>>,
      <<0, 0, 127, 255, 0, 0, 255, 255>>, <<0, 0, 128, 0, 0, 1, 0, 0>>,
      <<0, 0, 255, 255, 127, 255, 255, 255>>, <<0, 1, 0, 0, 128, 0, 0, 0>>,
      <<0, 0, 0, 0, 255, 255, 255, 255>>, <<0, 0, 0, 1, 0, 0, 0, 0>>,
      <<127, 255, 255, 255, 255, 255, 255, 255>>, <<128, 0, 0, 0, 0, 0, 0, 0>>,
      <<255, 255, 255, 255, 255, 255, 255, 255>> >>

IntTypes == {IntT(signed, w) : signed \in BOOLEAN, w \in {1, 2, 4, 8}}

InitHead ==
   /\ build = DefaultBuild
   /\ sink = static_buffer_new(0)
   /\ \E b \in InitialBytes : \E i \in DOMAIN HeadTails : source = read_buffer_new(<<b>> \o HeadTails[i], 0)
   /\ helpers = <<>>
   /\ scopes = <<>>
   /\ input = <<>>
   /\ last = NoLast
   /\ sent = <<>>
   /\ received = <<>>

\* One operation on the item at the start of the memory
NextHead ==
   \/ source.read_position = 0 /\ HeadRead
   \/ \E t \in IntTypes : source.read_position = 0 /\ Decode(t)

SpecHead == InitHead /\ [][NextHead]_vars

(***************************************************************************)
(* SpecFloat: one double, encoded up to MaxRepeat times and decoded        *)
(***************************************************************************)
MaxRepeat == 2

\* The biased exponents drawn: zero and subnormal doubles, the limits of the subnormal and of the
\* normal values of binary32 and binary16, one, the largest finite exponent, infinity and NaN
FloatExponents ==
   {0, 1, 873, 874, 875, 896, 897, 998, 999, 1000, 1008, 1009, 1023, 1038, 1039, 1150, 1151, 2046, 2047}

\* The positions (1 is the most significant) of the ones in the 52-bit significands drawn
FloatOnes == {{}, {1}, {1, 2}, {9}, {10}, {11}, {23}, {24}, {52}, 1..10, 1..23, 1..52}

MkDouble(sign, e, ones) ==
   FromBits(<<sign>> \o NatToBits(e, 11) \o [i \in 1..52 |-> IF i \in ones THEN 1 ELSE 0])

FloatInputs == {FloatV(8, MkDouble(sign, e, ones)) : sign \in {0, 1}, e \in FloatExponents, ones \in FloatOnes}

\* encode(buf, v) of the double drawn
EncodeFloat ==
   /\ Len(sent) < MaxRepeat
   /\ EncodeItem(input, FloatT(8))

InitFloat ==
   /\ build = DefaultBuild
   /\ sink = dynamic_buffer_new(unlimited_capacity)
   /\ source = read_buffer_unbound
   /\ helpers = <<>>
   /\ scopes = <<>>
   /\ input \in FloatInputs
   /\ last = NoLast
   /\ sent = <<>>
   /\ received = <<>>

NextFloat ==
   \/ EncodeFloat
   \/ Bind
   \/ DecodeNext

SpecFloat == InitFloat /\ [][NextFloat]_vars

(***************************************************************************)
(* SpecArgument: one call of encode_argument                               *)
(***************************************************************************)
MajorTypes == {unsigned_int, signed_int, byte_string, text_string, array, dictionary, tag, simple}

ArgBytes == {0, 1, 23, 24, 255}

\* The values of the unsigned types of 1, 2, 4 and 8 bytes drawn, as patterns of that many bytes
Arguments ==
   {LowBytes(Pattern(b, p, f), w) : b \in ArgBytes, p \in 0..7, f \in {0, 255}, w \in {1, 2, 4, 8}}

\* encode_argument(buf, type, argument)
EncodeArgument ==
   /\ last.op = "none"
   /\ LET done(r) == /\ sink' = r.sink
                      /\ last' = Last("encode_argument", r.ec, input, <<>>)
      IN done(encode_argument(sink, input.type, input.argument))
   /\ UNCHANGED <<build, source, helpers, scopes, input, sent, received>>

InitArgument ==
   /\ build = DefaultBuild
   /\ sink = dynamic_buffer_new(unlimited_capacity)
   /\ source = read_buffer_unbound
   /\ helpers = <<>>
   /\ scopes = <<>>
   /\ input \in [type : MajorTypes, argument : Arguments]
   /\ last = NoLast
   /\ sent = <<>>
   /\ received = <<>>

NextArgument == EncodeArgument

SpecArgument == InitArgument /\ [][NextArgument]_vars

(***************************************************************************)
(* Properties                                                              *)
(***************************************************************************)
\* C1: an encode of any kind of value that returns an error leaves size() and the bytes in
\* positions [0, size()) of the sink as they were before the call
EncodeFailureLeavesSink ==
   (last.op = "encode" /\ last.ec # success) =>
      /\ size(sink) = size(last.sink0)
      /\ committed(sink) = committed(last.sink0)

\* a composite encode failed on a static sink that held bytes, after it had written a part
EncodeFailureLeavesSinkWitness ==
   /\ last.op = "encode"
   /\ last.ec = buffer_overflow
   /\ last.arg.k \in {"array", "map", "record", "boxed", "union"}
   /\ sink.kind = "static"
   /\ size(sink) > 0
   /\ size(sink) < Len(sink.mem)
   /\ sink.mem # last.sink0.mem

DynamicSinkRespectsCap ==
   (sink.kind = "dynamic" /\ sink.max_capacity # unlimited_capacity) =>
      /\ size(sink) <= sink.max_capacity
      /\ (last.op = "write" /\ size(last.sink0) + Len(last.arg) > sink.max_capacity)
            => last.ec = buffer_overflow

\* C4: a write of n bytes either succeeds, and then size() grew by n and the new bytes are the
\* input in order, or returns buffer_overflow, and then size() and the committed bytes are as before
WriteIsAllOrNothing ==
   last.op = "write" =>
      \/ /\ last.ec = success
         /\ size(sink) = size(last.sink0) + Len(last.arg)
         /\ committed(sink) = committed(last.sink0) \o last.arg
      \/ /\ last.ec = buffer_overflow
         /\ size(sink) = size(last.sink0)
         /\ committed(sink) = committed(last.sink0)

\* a write of two bytes was refused by a static sink that had room for one
WriteIsAllOrNothingWitness ==
   /\ last.op = "write"
   /\ last.ec = buffer_overflow
   /\ sink.kind = "static"
   /\ Len(last.arg) = 2
   /\ Len(sink.mem) - size(last.sink0) = 1
   /\ size(sink) > 0

\* C5: a helper records size() / read_position() when it is created; the destructor of a helper
\* that holds a scope's state sets the size / cursor back to the recorded value unless commit()
\* was called on that state, and then leaves them alone; the destructor of a moved-from helper
\* changes nothing; no scope is rolled back twice
ScopeRollsBackOnce ==
   /\ \A id \in DOMAIN scopes : scopes[id].rollbacks <= 1
   /\ last.op = "get_rollback_helper" =>
         LET h == helpers[Len(helpers)]
         IN /\ h.token = scopes[h.id].at
            /\ h.token = IF h.cls = "write" THEN size(sink) ELSE source.read_position
   /\ last.op = "destroy" =>
         LET h == last.arg
         IN IF h.buf /\ ~scopes[h.id].committed
            THEN /\ scopes[h.id].rollbacks = 1
                 /\ IF h.cls = "write"
                    THEN size(sink) = scopes[h.id].at /\ source = last.source0
                    ELSE source.read_position = scopes[h.id].at /\ sink = last.sink0
            ELSE sink = last.sink0 /\ source = last.source0

\* a helper that took over a scope's state by a move was destroyed and rolled the sink back,
\* while the moved-from helper is still alive
ScopeRollsBackOnceWitness ==
   /\ last.op = "destroy"
   /\ last.arg.buf /\ last.arg.rollback /\ last.arg.cls = "write"
   /\ size(sink) < size(last.sink0)
   /\ \E i \in DOMAIN helpers : helpers[i].id = last.arg.id /\ ~helpers[i].buf

\* C6: an integer of any of the eight types, encoded into an unlimited sink and decoded from the
\* produced bytes into the same type, decodes successfully to the same value, and the decode
\* consumes exactly the bytes the encode produced
IntegerRoundTrip ==
   (Len(sent) = 1 /\ Len(received) = 1) =>
      /\ sent[1].ec = success
      /\ received[1].ec = success
      /\ received[1].v = input
      /\ received[1].from = 0
      /\ received[1].to = sent[1].to
      /\ sent[1].to = Len(source.span)
      /\ sent[1].to > 0

\* the smallest 64-bit signed integer went through an encode and a decode
IntegerRoundTripWitness ==
   /\ Len(received) = 1
   /\ input = IntV(TRUE, 8, min_int_v(TRUE, 8))
   /\ received[1].to = 9

\* C7: encode_argument writes 1 byte for an argument up to 23, 2 bytes up to 0xFF, 3 bytes up to
\* 0xFFFF, 5 bytes up to 0xFFFFFFFF and 9 bytes above, whatever the major type and whatever the
\* width of the type that holds the argument
ArgumentSmallestForm ==
   last.op = "encode_argument" =>
      LET a == ZExt(input.argument)
      IN /\ last.ec = success
         /\ size(sink) = IF LeU(a, U64(23)) THEN 1
                         ELSE IF LeU(a, U64(255)) THEN 2
                         ELSE IF LeU(a, U64(65535)) THEN 3
                         ELSE IF LeU(a, <<0, 0, 0, 0, 255, 255, 255, 255>>) THEN 5
                         ELSE 9

\* an argument of 24 held by a 64-bit type was written in two bytes
ArgumentSmallestFormWitness ==
   /\ last.op = "encode_argument"
   /\ input.argument = U64(24)
   /\ size(sink) = 2

\* C8: after k successful encodes into one sink, k decodes of the same types from the produced
\* bytes return the k values in order, each decode advances the cursor by the number of bytes its
\* encode appended, and the cursor ends at the end of the data
ItemsAreSelfDelimiting ==
   (source.bound /\ \A i \in DOMAIN sent : sent[i].ec = success) =>
      /\ \A i \in DOMAIN received :
            /\ received[i].ec = success
            /\ received[i].v = sent[i].v
            /\ received[i].to - received[i].from = sent[i].to - sent[i].from
      /\ Len(received) = Len(sent) => source.read_position = Len(source.span)

\* C9: decoding the bytes produced by encoding a union yields a union with the same active
\* alternative and an equal payload
UnionRoundTrip ==
   (Len(sent) = 1 /\ Len(received) = 1 /\ sent[1].v.k = "union" /\ sent[1].ec = success) =>
      /\ received[1].ec = success
      /\ received[1].v.index = sent[1].v.index
      /\ received[1].v.v = sent[1].v.v

\* C10: encoding a union writes the byte 0x82, then the identifier of the active alternative as
\* an unsigned integer in smallest form, then the encoding of the active alternative, and
\* nothing else
UnionEncodingIsBoxed ==
   \A i \in DOMAIN sent :
      (sent[i].v.k = "union" /\ sent[i].ec = success) =>
         LET u == sent[i].v
             fresh == dynamic_buffer_new(unlimited_capacity)
             id == encode_argument(fresh, unsigned_int, u.ids[u.index].bits).sink.mem
             payload == encode(fresh, u.v).sink.mem
         IN SubSeq(sink.mem, sent[i].from + 1, sent[i].to) = <<130>> \o id \o payload

\* C11: encoding a record with n members writes an array head of count n, then the encodings
\* of the members in index order
RecordEncodingHasHead ==
   \A i \in DOMAIN sent :
      (sent[i].v.k = "record" /\ sent[i].ec = success) =>
         LET members == sent[i].v.v
             fresh == dynamic_buffer_new(unlimited_capacity)
             head == encode_argument(fresh, array, U64(Len(members))).sink.mem
             payload == encode_each(fresh, members, 1).sink.mem
         IN SubSeq(sink.mem, sent[i].from + 1, sent[i].to) = head \o payload

\* C12: decoding a record with n members gives unexpected_type when the head is not an array
\* head, decoding_error when it is an array head whose count is not n, and otherwise decodes
\* the members in index order and returns the first member error (success when there is none)
RecordDecodeChecksHead ==
   (last.op = "decode" /\ last.arg.k = "record") =>
      LET ts == last.arg.members
          n == Len(ts)
          outcome(h) ==
             LET start[i \in 0..n] ==
                    IF i = 0 THEN h.source
                    ELSE decode(start[i - 1], ts[i], DefaultV(ts[i])).source
                 member(i) == decode(start[i - 1], ts[i], DefaultV(ts[i]))
                 failed == {i \in 1..n : member(i).ec # success}
                 first == CHOOSE i \in failed : \A j \in failed : i <= j
             IN h.ec = success =>
                   IF h.head.type # array THEN last.ec = unexpected_type
                   ELSE IF decode_argument(h.head) # U64(n) THEN last.ec = decoding_error
                   ELSE IF failed = {}
                        THEN /\ last.ec = success
                             /\ source = start[n]
                             /\ last.v.v = [i \in 1..n |-> member(i).v]
                   ELSE /\ last.ec = member(first).ec
                        /\ source = start[first]
                        /\ \A i \in 1..(first - 1) : last.v.v[i] = member(i).v
      IN outcome(head_read(last.source0))

\* a record decode whose first member was decoded and whose second member failed
RecordDecodeChecksHeadWitness ==
   /\ last.op = "decode"
   /\ last.arg = Rec1T
   /\ last.source0.read_position = 0
   /\ last.ec = unexpected_type
   /\ source.read_position = 3
   /\ last.v.v[1] = SIntV(1, 7)

\* C13: a head read of an initial byte whose five low bits are 31 returns ill_formed, for every
\* major type, and no decode of an item that starts with such a byte succeeds
BreakCodeIsIllFormed ==
   (/\ last.op \in {"head_read", "decode"}
    /\ last.source0.bound
    /\ last.source0.read_position < Len(last.source0.span)
    /\ span_at(last.source0, last.source0.read_position) % 32 = 31) =>
      IF last.op = "head_read" THEN last.ec = ill_formed ELSE last.ec # success

\* C14: a head read of an initial byte whose five low bits are 28, 29 or 30 returns ill_formed,
\* for every major type
ReservedSizeIsIllFormed ==
   (/\ last.op = "head_read"
    /\ last.source0.bound
    /\ last.source0.read_position < Len(last.source0.span)
    /\ span_at(last.source0, last.source0.read_position) % 32 \in {28, 29, 30}) =>
      last.ec = ill_formed

\* a head read of 0xDE (major type 6, size 30) with argument bytes at hand was rejected
ReservedSizeIsIllFormedWitness ==
   /\ last.op = "head_read"
   /\ last.source0.read_position = 0
   /\ Len(last.source0.span) = 9
   /\ last.source0.span[1] = 222
   /\ last.ec = ill_formed
   /\ source.read_position = 1

\* C15: a decode into an integer type T of w bytes, started at a complete head with argument u
\* (size information at most 27): major type 0 succeeds when u is in the range of T; major type
\* 1 into a signed T succeeds when -1 - u is in the range of T, that is when u is at most the
\* maximum of T; out of range gives value_not_representable whatever the number of argument
\* bytes; major type 1 into an unsigned T and the major types 2 to 7 give unexpected_type
IntegerDecodeByRange ==
   (last.op = "decode" /\ last.arg.k = "int") =>
      LET T == last.arg
          s0 == last.source0
          b0 == span_at(s0, s0.read_position)
          major == b0 \div 32
          info == b0 % 32
          n == CASE info = 24 -> 1 [] info = 25 -> 2 [] info = 26 -> 4 [] info = 27 -> 8 [] OTHER -> 0
          u == IF n = 0 THEN Zeros(7) \o <<info>>
               ELSE Zeros(8 - n) \o SubSeq(s0.span, s0.read_position + 2, s0.read_position + 1 + n)
          high_zero == \A i \in 1..(8 - T.w) : u[i] = 0
          in_range == IF T.signed THEN high_zero /\ u[9 - T.w] < 128 ELSE high_zero
      IN (/\ s0.bound
          /\ info <= 27
          /\ s0.read_position + 1 + n <= Len(s0.span)) =>
            IF major >= 2 \/ (major = 1 /\ ~T.signed) THEN last.ec = unexpected_type
            ELSE IF in_range THEN last.ec = success /\ source.read_position = s0.read_position + 1 + n
            ELSE last.ec = value_not_representable

\* a negative integer with an eight-byte argument above the signed 64-bit maximum was decoded
\* into a signed 64-bit integer
IntegerDecodeByRangeWitness ==
   /\ last.op = "decode"
   /\ last.arg = IntT(TRUE, 8)
   /\ last.source0.read_position = 0
   /\ last.source0.span = <<59, 128, 0, 0, 0, 0, 0, 0, 0>>
   /\ last.ec = value_not_representable

UnionSelectsByIdentifier ==
   (last.op = "decode" /\ last.arg.k = "union") =>
      LET s0 == last.source0
          alts == last.arg.alts
          selected(id) ==
             LET matching == {i \in DOMAIN alts : alts[i].id.bits = id.v.bits}
                 first == CHOOSE i \in matching : \A j \in matching : i <= j
                 payload(r) ==
                    /\ last.ec = r.ec
                    /\ source = r.source
                    /\ r.ec = success =>
                          /\ last.v.index = first
                          /\ last.v.v = r.v
             IN id.ec = success =>
                   IF matching = {} THEN last.ec = unexpected_type
                   ELSE payload(decode(id.source, alts[first], DefaultV(alts[first])))
      IN (/\ s0.bound
          /\ s0.read_position < Len(s0.span)
          /\ span_at(s0, s0.read_position) = 130) =>
            selected(decode(read_buffer_reset(s0, s0.read_position + 1), IntT(TRUE, 8),
                            IntV(TRUE, 8, Zeros(8))))

\* the payload of the first alternative failed to decode although it was an encoding of the
\* second alternative, and the failure was returned
UnionSelectsByIdentifierWitness ==
   /\ last.op = "decode"
   /\ last.arg = Union1T
   /\ last.source0.read_position = 0
   /\ last.source0.span = <<130, 25, 190, 239, 129, 245>>
   /\ last.ec = decoding_error
   /\ source.read_position = 5

\* C18: a decode into an optional<T> from a bound source with the cursor at p, within the data:
\* with no byte at p it returns buffer_underflow and leaves the cursor at p; with 0xF6 at p it
\* succeeds, leaves the optional absent and the cursor at p + 1; with any other byte at p it
\* is the decode of a T that starts at p, and the optional holds its value when it succeeds
OptionalDecodeProbes ==
   (last.op = "decode" /\ last.arg.k = "optional") =>
      LET s0 == last.source0
          p == s0.read_position
          T == last.arg.t
          payload(r) ==
             /\ last.ec = r.ec
             /\ source = r.source
             /\ r.ec = success => last.v = SomeV(r.v)
      IN (s0.bound /\ p <= Len(s0.span)) =>
            IF p = Len(s0.span) THEN last.ec = buffer_underflow /\ source.read_position = p
            ELSE IF s0.span[p + 1] = 246
                 THEN /\ last.ec = success
                      /\ ~last.v.has_value
                      /\ source.read_position = p + 1
            ELSE payload(decode(s0, T, DefaultV(T)))

\* an optional was decoded from a payload whose first byte is the probed byte
OptionalDecodeProbesWitness ==
   /\ last.op = "decode"
   /\ last.arg = OptionalT(IntT(FALSE, 1))
   /\ last.source0.read_position = 0
   /\ last.source0.span = <<24, 255>>
   /\ last.ec = success
   /\ last.v = SomeV(UIntV(1, 255))
   /\ source.read_position = 2

\* C19: a decode of a byte string whose head declares the length L: into an array of extent E
\* it returns buffer_overflow when L > E and buffer_underflow when L < E, and succeeds only
\* when L = E and L bytes follow the head; into a vector with the cap C it returns
\* buffer_overflow when L > C; a head of another major type gives unexpected_type
ByteStringDecodeChecksLength ==
   (last.op = "decode" /\ last.arg.k \in {"bytes_array", "bytes_vector"}) =>
      LET T == last.arg
          s0 == last.source0
          outcome(h) ==
             LET u == decode_argument(h.head)
                 L == IF IsSmall(u) THEN SmallNat(u) ELSE Pow2(24)
                 available == Len(s0.span) - h.source.read_position
             IN h.ec = success =>
                   IF h.head.type # byte_string THEN last.ec = unexpected_type
                   ELSE IF T.k = "bytes_array"
                        THEN /\ L > T.extent => last.ec = buffer_overflow
                             /\ L < T.extent => last.ec = buffer_underflow
                             /\ last.ec = success <=> (L = T.extent /\ available >= L)
                             /\ last.ec = success =>
                                   /\ source.read_position = h.source.read_position + L
                                   /\ last.v.v = SubSeq(s0.span, h.source.read_position + 1,
                                                        h.source.read_position + L)
                   ELSE (T.max_size # NoLimit /\ L > T.max_size) => last.ec = buffer_overflow
      IN (s0.bound /\ s0.read_position <= Len(s0.span)) => outcome(head_read(s0))

\* a byte string of two bytes was decoded into an array of three bytes
ByteStringDecodeChecksLengthWitness ==
   /\ last.op = "decode"
   /\ last.arg = BytesArrayT(3)
   /\ last.source0.read_position = 0
   /\ last.source0.span = <<66, 1, 2>>
   /\ last.ec = buffer_underflow

\* C20: a decode of an array whose head declares the count n: into a span of extent E it
\* returns buffer_overflow when n > E and buffer_underflow when n < E, and decodes elements only
\* when n = E; into a vector with the cap C it returns buffer_overflow when n > C, and otherwise
\* the vector gets n elements; the elements are decoded in index order and the first element
\* error is returned (success when there is none)
ArrayDecodeChecksCount ==
   (last.op = "decode" /\ last.arg.k \in {"span", "vector"}) =>
      LET T == last.arg
          s0 == last.source0
          outcome(h) ==
             LET u == decode_argument(h.head)
                 n == SmallNat(u)
                 start[i \in 0..n] ==
                    IF i = 0 THEN h.source
                    ELSE decode(start[i - 1], T.t, DefaultV(T.t)).source
                 element(i) == decode(start[i - 1], T.t, DefaultV(T.t))
                 failed == {i \in 1..n : element(i).ec # success}
                 first == CHOOSE i \in failed : \A j \in failed : i <= j
                 elements ==
                    IF failed = {}
                    THEN /\ last.ec = success
                         /\ source = start[n]
                         /\ last.v.v = [i \in 1..n |-> element(i).v]
                    ELSE /\ last.ec = element(first).ec
                         /\ source = start[first]
                         /\ \A i \in 1..(first - 1) : last.v.v[i] = element(i).v
             IN (h.ec = success /\ h.head.type = array /\ IsSmall(u)) =>
                   IF T.k = "span"
                   THEN IF n > T.extent THEN last.ec = buffer_overflow /\ source = h.source
                        ELSE IF n < T.extent THEN last.ec = buffer_underflow /\ source = h.source
                        ELSE elements
                   ELSE IF T.max_size # NoLimit /\ n > T.max_size
                        THEN last.ec = buffer_overflow /\ source = h.source
                        ELSE Len(last.v.v) = n /\ elements
      IN (s0.bound /\ s0.read_position <= Len(s0.span)) => outcome(head_read(s0))

\* a vector was resized to the two elements declared, its first element was decoded and the
\* error of its second element was returned
ArrayDecodeChecksCountWitness ==
   /\ last.op = "decode"
   /\ last.arg = VectorT(IntT(FALSE, 1), 2)
   /\ last.source0.read_position = 0
   /\ last.source0.span = <<130, 7, 245>>
   /\ last.ec = unexpected_type
   /\ Len(last.v.v) = 2
   /\ last.v.v[1] = UIntV(1, 7)
   /\ source.read_position = 3

\* C21: on a source bound to n bytes with the cursor at p <= n, a read of k bytes into a
\* destination that is not null (k = 1 for the read of one byte) succeeds exactly when
\* p + k <= n, then delivers the bytes p .. p + k - 1 in order and moves the cursor to p + k;
\* otherwise it returns buffer_underflow and leaves the cursor at p
ReadWithinMemory ==
   (last.op \in {"read", "read_span"}) =>
      LET s0 == last.source0
          p == s0.read_position
          n == Len(s0.span)
          k == last.arg
          null_destination == last.op = "read_span" /\ k = 0 /\ last.ec = invalid_usage
      IN (s0.bound /\ p <= n /\ ~null_destination) =>
            IF p + k <= n
            THEN /\ last.ec = success
                 /\ source = [s0 EXCEPT !.read_position = p + k]
                 /\ last.v = SubSeq(s0.span, p + 1, p + k)
            ELSE /\ last.ec = buffer_underflow
                 /\ source = s0

\* a read of two bytes with only one byte left returned buffer_underflow
ReadWithinMemoryWitness ==
   /\ last.op = "read_span"
   /\ last.arg = 2
   /\ last.source0.bound
   /\ last.source0.read_position = Len(last.source0.span) - 1
   /\ last.ec = buffer_underflow
   /\ source.read_position = last.source0.read_position

\* C22: every encode of the same finite double writes the same bytes, in the narrowest of the
\* three formats that holds the value exactly, and the bytes decode to the value
FloatNarrowestWidth ==
   LET x == ToBits(input.bits)
       e == FExp(x, FmtDouble)
       m == FMant(x, FmtDouble)
       E == e - Bias(FmtDouble)
       \* the significand bits a format keeps for a value of exponent E
       kept(fmt) == Min(fmt.m, E - (1 - Bias(fmt)) + fmt.m)
       exact(fmt) ==
          IF e = 0 THEN AllZero(m)
          ELSE E <= Bias(fmt) /\ kept(fmt) >= 0 /\ AllZero(SubSeq(m, kept(fmt) + 1, 52))
       width == IF exact(FmtHalf) THEN 2 ELSE IF exact(FmtSingle) THEN 4 ELSE 8
       bytes(i) == SubSeq(sink.mem, sent[i].from + 1, sent[i].to)
   IN (input.k = "float" /\ e # Pow2(11) - 1) =>
         /\ \A i \in DOMAIN sent :
               /\ sent[i].ec = success
               /\ Len(bytes(i)) = 1 + width
               /\ bytes(i)[1] = simple + (CASE width = 2 -> hp_float [] width = 4 -> sp_float
                                            [] OTHER -> dp_float)
               /\ bytes(i) = bytes(1)
         /\ \A j \in DOMAIN received :
               /\ received[j].ec = success
               /\ received[j].v = input

\* the smallest subnormal of binary16 was encoded twice, in three bytes each time
FloatNarrowestWidthWitness ==
   /\ input = FloatV(8, MkDouble(0, 999, {}))
   /\ Len(sent) = 2
   /\ Len(received) = 2
   /\ committed(sink) = <<249, 0, 1, 249, 0, 1>>

\* C23: a static sink over a span of extent E always has 0 <= size() <= E, and a write of n
\* bytes into it succeeds exactly when size() + n <= E and returns buffer_overflow otherwise
StaticSinkWithinExtent ==
   sink.kind = "static" =>
      /\ 0 <= size(sink)
      /\ size(sink) <= Len(sink.mem)
      /\ last.op = "write" =>
            IF size(last.sink0) + Len(last.arg) <= Len(sink.mem)
            THEN last.ec = success
            ELSE last.ec = buffer_overflow

\* a write filled a static sink up to its extent after a rollback had emptied it
StaticSinkWithinExtentWitness ==
   /\ sink.kind = "static"
   /\ last.op = "write"
   /\ last.ec = success
   /\ Len(last.arg) = 2
   /\ size(sink) = Len(sink.mem)
   /\ Len(scopes) = 1
   /\ scopes[1].rollbacks = 1

\* C24: a head read on a bound source with the cursor at p within the n bytes of data: with no
\* byte at p it returns buffer_underflow and leaves the cursor at p; with an initial byte at p
\* that announces more argument bytes than are left it returns buffer_underflow with the cursor
\* at p + 1, past the initial byte only
HeadUnderflowCursor ==
   last.op = "head_read" =>
      LET s0 == last.source0
          p == s0.read_position
          n == Len(s0.span)
          info == span_at(s0, p) % 32
          k == CASE info = 24 -> 1 [] info = 25 -> 2 [] info = 26 -> 4 [] info = 27 -> 8 [] OTHER -> 0
      IN (s0.bound /\ p <= n) =>
            /\ p = n => last.ec = buffer_underflow /\ source = s0
            /\ (p < n /\ p + 1 + k > n) =>
                  last.ec = buffer_underflow /\ source = [s0 EXCEPT !.read_position = p + 1]
            /\ (p < n /\ last.ec = buffer_underflow) => p + 1 + k > n

\* a head read found one of the two argument bytes its initial byte announces
HeadUnderflowCursorWitness ==
   /\ last.op = "head_read"
   /\ last.source0.span = <<25, 1>>
   /\ last.source0.read_position = 0
   /\ last.ec = buffer_underflow
   /\ source.read_position = 1

\* C25: a union decode of the byte 0x82 followed by the identifier of one of the alternatives,
\* as the encoder writes it, goes on to decode the payload as that alternative, whatever the
\* identifier is in [0, 2^64)
UnionAcceptsEveryIdentifier ==
   (last.op = "decode" /\ last.arg.k = "union") =>
      LET s0 == last.source0
          p == s0.read_position
          alts == last.arg.alts
          written(i) == encode(dynamic_buffer_new(unlimited_capacity), alts[i].id).sink.mem
          payload(i, r) ==
             /\ last.ec = r.ec
             /\ r.ec = success => last.v.index = i /\ last.v.v = r.v
          selected(i, id) ==
             (/\ p + 1 + Len(id) <= Len(s0.span)
              /\ SubSeq(s0.span, p + 2, p + 1 + Len(id)) = id) =>
                payload(i, decode(read_buffer_reset(s0, p + 1 + Len(id)), alts[i], DefaultV(alts[i])))
      IN (s0.bound /\ p < Len(s0.span) /\ s0.span[p + 1] = 130) =>
            \A i \in DOMAIN alts : selected(i, written(i))

\* C26: with helpers of one sink destroyed in reverse order of creation, the destructor of a
\* helper that was not committed leaves size() at the size recorded when it was created and the
\* bytes before it as they are, also when scopes opened after it were committed and ended in
\* between; and the sizes recorded by the helpers alive never decrease from the outermost to the
\* innermost
NestedScopesCompose ==
   /\ \A i, j \in DOMAIN helpers : i < j => helpers[i].token <= helpers[j].token
   /\ (last.op = "destroy" /\ last.arg.cls = "write" /\ ~scopes[last.arg.id].committed) =>
         LET s == scopes[last.arg.id].at
         IN /\ size(sink) = s
            /\ s <= size(last.sink0)
            /\ committed(sink) = SubSeq(committed(last.sink0), 1, s)

\* scope 1 was opened, bytes were written, scope 2 was opened, written into, committed and ended
\* with its bytes kept; then the helper of scope 1 was destroyed and took all of them back
NestedScopesComposeWitness ==
   /\ last.op = "destroy" /\ last.arg.id = 1
   /\ Len(scopes) = 2
   /\ scopes[2].committed /\ scopes[2].rollbacks = 0 /\ ~scopes[1].committed
   /\ scopes[1].at < scopes[2].at
   /\ scopes[2].at < size(last.sink0)
   /\ helpers = <<>>
   /\ size(sink) = scopes[1].at

\* C27: a write of n bytes to a dynamic sink with a finite cap N returns success whenever
\* size() + n <= N
FittingWriteSucceeds ==
   (/\ last.op = "write"
    /\ sink.kind = "dynamic" /\ sink.max_capacity # unlimited_capacity
    /\ size(last.sink0) + Len(last.arg) <= sink.max_capacity) => last.ec = success

\* C28: read(byte) and read(span) with a non-empty destination return buffer_underflow whenever
\* fewer bytes than requested lie between the cursor and the end of the bound memory, also for
\* a cursor that reset(p) put past the end, and a successful read leaves the cursor within [0, n]
ReadNeverLeavesMemory ==
   (/\ last.op \in {"read", "read_span"}
    /\ last.source0.bound
    /\ last.arg >= 1) =>
      LET n == Len(last.source0.span)
          p == last.source0.read_position
      IN /\ n - p < last.arg => last.ec = buffer_underflow
         /\ last.ec = success => 0 <= source.read_position /\ source.read_position <= n

\* C29: a decode into a union that returns an error leaves the destination with the active
\* alternative and the value it had before the call
FailedUnionDecodeKeepsDestination ==
   (last.op = "decode_into" /\ last.arg.t.k = "union" /\ last.ec # success) =>
      last.v = last.arg.dst

\* the header and the identifier of the first alternative were read and the payload, an array
\* of one where the record has two members, was refused; the destination still holds its
\* second alternative
FailedUnionDecodeKeepsDestinationWitness ==
   /\ last.op = "decode_into" /\ last.arg.t = Union1T
   /\ last.source0.span = <<130, 25, 190, 239, 129, 245>> /\ last.source0.read_position = 0
   /\ last.ec = decoding_error
   /\ source.read_position = 5
   /\ last.v = UnionV(UnionIds, 2, Rec2V)

\* the n pairs a dictionary encoding holds from the cursor of src on, in the order of the input
RECURSIVE encoded_pairs(_, _, _)
encoded_pairs(src, t, n) ==
   LET with_key(rk) ==
          LET with_value(rv) == <<(<<rk.v, rv.v>>)>> \o encoded_pairs(rv.source, t, n - 1)
          IN with_value(decode(rk.source, t.vt, DefaultV(t.vt)))
   IN IF n = 0 THEN <<>> ELSE with_key(decode(src, t.kt, DefaultV(t.kt)))

\* the destination before a dictionary decode, the encoded pairs and the destination after it
MapBefore == IF last.op = "decode" THEN DefaultV(last.arg).v ELSE last.arg.dst.v
MapType == IF last.op = "decode" THEN last.arg ELSE last.arg.t
MapEncoded ==
   LET from_head(r) == encoded_pairs(r.source, MapType, SmallNat(decode_argument(r.head)))
   IN from_head(head_read(last.source0))
MapDecoded ==
   /\ last.op \in {"decode", "decode_into"}
   /\ MapType.k = "map"
   /\ last.ec = success

Keys(pairs) == {pairs[i][1] : i \in DOMAIN pairs}
Entries(pairs) == {pairs[i] : i \in DOMAIN pairs}
KeysDistinct(pairs) == \A i, j \in DOMAIN pairs : pairs[i][1] = pairs[j][1] => i = j
EqualsEncoded(pairs, enc) == Len(pairs) = Len(enc) /\ Entries(pairs) = Entries(enc)

\* after a successful dictionary decode every entry held before is still there, every key of
\* the input that was not held before maps to the value of its first occurrence in the input,
\* and there is no other key
MapDecodeAdds(before, enc, after) ==
   /\ KeysDistinct(after)
   /\ Entries(before) \subseteq Entries(after)
   /\ \A j \in DOMAIN enc :
         (/\ enc[j][1] \notin Keys(before)
          /\ \A i \in 1..(j - 1) : enc[i][1] # enc[j][1]) => enc[j] \in Entries(after)
   /\ Keys(after) = Keys(before) \cup Keys(enc)

\* the claim as stated: the destination equals the encoded pairs only when it was empty before
\* the call and the input keys are distinct
MapDecodeOnlyAddsAsStated ==
   MapDecoded =>
      /\ MapDecodeAdds(MapBefore, MapEncoded, last.v.v)
      /\ EqualsEncoded(last.v.v, MapEncoded) => MapBefore = <<>> /\ KeysDistinct(MapEncoded)

\* C30: map decoding only adds entries: after a successful decode the entries held before are
\* kept, new keys of the input map to the value of their first occurrence and there are no other
\* keys; the destination equals the encoded pairs exactly when the input keys are distinct and
\* every entry held before the call is one of the encoded pairs, as it is for an empty destination
MapDecodeOnlyAdds ==
   MapDecoded =>
      /\ MapDecodeAdds(MapBefore, MapEncoded, last.v.v)
      /\ EqualsEncoded(last.v.v, MapEncoded)
            <=> (KeysDistinct(MapEncoded) /\ Entries(MapBefore) \subseteq Entries(MapEncoded))
      /\ (MapBefore = <<>> /\ KeysDistinct(MapEncoded)) => EqualsEncoded(last.v.v, MapEncoded)

\* {1: "1", 2: "2"} was decoded into a map that held {1: "2"}: the value of 1 was kept and
\* 2 was added
MapDecodeOnlyAddsWitness ==
   /\ last.op = "decode_into" /\ last.ec = success
   /\ last.source0.span = <<162, 1, 97, 49, 2, 97, 50>> /\ last.source0.read_position = 0
   /\ last.arg.dst = MapV(<< <<SIntV(4, 1), TextV(<<50>>)>> >>)
   /\ last.v = MapV(<< <<SIntV(4, 1), TextV(<<50>>)>>, <<SIntV(4, 2), TextV(<<50>>)>> >>)
   /\ source.read_position = 7

====
